---- MODULE Spec2Model ----
(***************************************************************************)
(* Model of githonllc/entdomain.                                           *)
(*                                                                         *)
(*  - Spec       : the generic CRUD runtime BaseGenericDomainService       *)
(*                 (src/errors.go) driven by callers against a storage     *)
(*                 abstraction whose replies are nondeterministic.         *)
(*  - SpecCursor : the keyset-pagination cursor codec (src/cursor.go),     *)
(*                 EncodeCursor / DecodeCursor applied to bounded inputs.  *)
(*  - SpecGen    : the template functions of the code generator            *)
(*                 (annotation resolver, field selectors, predicate        *)
(*                 synthesizer) applied to bounded schema types.           *)
(***************************************************************************)
EXTENDS Integers, Sequences, FiniteSets, TLC

VARIABLES
    pc,         \* per caller: position inside the service operation
    op,         \* per caller: the operation in progress and its arguments
    local,      \* per caller: local variables of the operation
    repoCalls,  \* per caller: storage calls made by the operation so far
    convCalls,  \* per caller: converter calls made by the operation so far
    ret,        \* per caller: what the operation returned
    cur,        \* cursor codec: the input (a cursor or a token)
    tok,        \* cursor codec: the token produced / consumed
    dec,        \* cursor codec: result of DecodeCursor
    cpc,        \* cursor codec: position of the codec driver
    genCall,    \* code generator and value types: the function called, with its arguments
    genOut      \* code generator and value types: what the call returned

vars == <<pc, op, local, repoCalls, convCalls, ret, cur, tok, dec, cpc, genCall, genOut>>
svcVars == <<pc, op, local, repoCalls, convCalls, ret>>
curVars == <<cur, tok, dec, cpc>>
genVars == <<genCall, genOut>>

----------------------------------------------------------------------------
(* Bounds *)

\* longest list of models a storage List/Search reply carries
MaxModels == 1
\* largest total a storage List/Search reply reports
MaxTotal == 1
\* the longest field list of a schema
MaxFields == 2

----------------------------------------------------------------------------
(* int64: sign and magnitude, the magnitude as four 16-bit limbs,          *)
(* least-significant first (TLC integers are 32 bits wide).                *)

LimbBase == 2^16

MagZero == <<0, 0, 0, 0>>

\* magnitude of a small natural number
MagOfNat(n) == <<n % LimbBase, n \div LimbBase, 0, 0>>

\* int64 value of a small integer
I64(n) == [neg |-> n < 0, mag |-> MagOfNat(IF n < 0 THEN -n ELSE n)]

\* (quotient, remainder) of a magnitude divided by a small number d
MagDivMod(m, d) ==
    LET c4 == m[4]
        c3 == (c4 % d) * LimbBase + m[3]
        c2 == (c3 % d) * LimbBase + m[2]
        c1 == (c2 % d) * LimbBase + m[1]
    IN  [q |-> <<c1 \div d, c2 \div d, c3 \div d, c4 \div d>>, r |-> c1 % d]

Digits == <<"0", "1", "2", "3", "4", "5", "6", "7", "8", "9">>

\* decimal digits of a magnitude, most significant first: the magnitude is
\* cut into five groups of four digits, and the leading zeros are dropped
MagDecimal(m) ==
    LET d1 == MagDivMod(m, 10^4)
        d2 == MagDivMod(d1.q, 10^4)
        d3 == MagDivMod(d2.q, 10^4)
        d4 == MagDivMod(d3.q, 10^4)
        d5 == MagDivMod(d4.q, 10^4)
        group == <<d5.r, d4.r, d3.r, d2.r, d1.r>>
        Strip(all) ==
            SubSeq(all,
                   IF \E i \in 1..19 : all[i] # "0"
                   THEN CHOOSE i \in 1..19 : all[i] # "0" /\ \A j \in 1..(i - 1) : all[j] = "0"
                   ELSE 20,
                   20)
    IN  Strip([i \in 1..20 |->
                  Digits[((group[(i - 1) \div 4 + 1] \div 10^(3 - ((i - 1) % 4))) % 10) + 1]])

\* strconv.FormatInt(n, 10)
FormatInt(n) ==
    (IF n.neg /\ n.mag # MagZero THEN <<"-">> ELSE <<>>) \o MagDecimal(n.mag)

----------------------------------------------------------------------------
(* ID: StringID | Int64ID *)

StringID(s) == [kind |-> "string", s |-> s, n |-> I64(0)]
Int64ID(n) == [kind |-> "int64", s |-> <<>>, n |-> n]

\* ID.String()
String(id) ==
    IF id.kind = "string" THEN id.s ELSE FormatInt(id.n)

\* ID.IsZero()
IsZero(id) ==
    IF id.kind = "string" THEN id.s = <<>> ELSE id.n.mag = MagZero

----------------------------------------------------------------------------
(* errors *)

\* the nil error
NoError == [msg |-> <<>>, cause |-> <<>>]

\* errors.New(text) and fmt.Errorf without %w: a message, nothing wrapped.
\* A message is kept as its ": "-separated segments.
NewError(segs) == [msg |-> segs, cause |-> <<>>]

\* fmt.Errorf(prefix + ": %w", err) with the wrapped error dropped (%v)
WrapfNoChain(prefix, err) == [msg |-> <<prefix>> \o err.msg, cause |-> <<>>]

\* fmt.Errorf(prefix + ": %w", err)
Wrapf(prefix, err) == [msg |-> <<prefix>> \o err.msg, cause |-> <<err>>]

ErrNotFound == NewError(<<"entity not found">>)
ErrAlreadyExists == NewError(<<"entity already exists">>)
ErrValidation == NewError(<<"validation failed">>)

RECURSIVE Is(_, _)
\* errors.Is(err, target)
Is(err, target) ==
    IF err = NoError THEN FALSE
    ELSE \/ err = target
         \/ (err.cause # <<>> /\ Is(err.cause[1], target))

IsNotFound(err) == Is(err, ErrNotFound)
IsAlreadyExists(err) == Is(err, ErrAlreadyExists)
IsValidation(err) == Is(err, ErrValidation)

----------------------------------------------------------------------------
(* domain models, requests, responses *)

DefaultPageSize == 20
MaxPageSize == 1000

\* a value of the service's domain model type T
Model(id, name) == [typ |-> "T", id |-> id, name |-> name]

\* a DomainModel whose dynamic type is not T
NotT == [typ |-> "other", id |-> StringID(<<>>), name |-> ""]

\* the nil model a failing storage call returns
NilModel == [typ |-> "nil", id |-> StringID(<<>>), name |-> ""]

\* Entity.GetID
GetID(m) == m.id

\* Entity.SetID
SetID(m, id) == [m EXCEPT !.id = id]

\* UpdateRequest.ApplyToDomainModel: the request decides what comes back
\* ("keep" the identity, "drop" it, "alter" it, or return another type)
ApplyToDomainModel(req, existing) ==
    CASE req.apply = "keep"  -> Model(existing.id, req.name)
      [] req.apply = "drop"  -> Model(StringID(<<>>), req.name)
      [] req.apply = "alter" -> Model(Int64ID(I64(9)), req.name)
      [] OTHER               -> NotT

\* the zero value of R / LR
ZeroVal == [kind |-> "zero", model |-> NilModel, models |-> <<>>,
            total |-> 0, page |-> 0, size |-> 0]

\* Converters.ToResponse
ToResponse(m) == [ZeroVal EXCEPT !.kind = "R", !.model = m]

\* Converters.ToListResponse
ToListResponse(models, total, page, size) ==
    [kind |-> "LR", model |-> NilModel, models |-> models,
     total |-> total, page |-> page, size |-> size]

ListRequest(page, size, sortBy, order) ==
    [Page |-> page, Size |-> size, SortBy |-> sortBy, Order |-> order]

SearchRequest(query, size, page) ==
    [Query |-> query, Filters |-> {}, Size |-> size, Page |-> page, SortBy |-> "",
     Order |-> ""]

NoRequest == ListRequest(0, 0, "", "")

----------------------------------------------------------------------------
(* inputs of the service operations and replies of the storage *)

Callers == {1}

IDs == {StringID(<<>>), StringID(<<"a">>), Int64ID(I64(0)), Int64ID(I64(7))}

ValidationErrors ==
    {NewError(<<"request validation failed">>), Wrapf("email format", ErrValidation)}

RepoErrors ==
    {ErrNotFound, ErrAlreadyExists, Wrapf("person 123", ErrNotFound),
     NewError(<<"db connection refused">>)}

\* models the storage may hand back
RepoModels == {Model(Int64ID(I64(7)), "stored"), Model(StringID(<<"a">>), "stored")}

CreateRequests ==
    [validate : {NoError} \cup ValidationErrors,
     toDomainModel : {Model(StringID(<<>>), "new"), NotT}]

UpdateRequests ==
    [validate : {NoError} \cup ValidationErrors,
     apply : {"keep", "drop", "alter", "other"},
     name : {"updated"}]

QueryParams ==
    [validate : {NoError} \cup ValidationErrors,
     toSearchRequest : {SearchRequest(q, sz, pg) :
                          q \in {"", "bob"}, sz \in {-1, 0, 20, 1001}, pg \in {-1, 0, 2}}]

Pages == {-1, 0, 1}
Sizes == {-1, 0, 1, DefaultPageSize, MaxPageSize, MaxPageSize + 1}
SortBys == {"", "name"}
Orders == {"", "desc"}

\* lists of at most n models
RECURSIVE ModelLists(_)
ModelLists(n) ==
    IF n = 0 THEN {<<>>}
    ELSE ModelLists(n - 1) \cup
         {Append(l, m) : l \in {x \in ModelLists(n - 1) : Len(x) = n - 1}, m \in RepoModels}

\* one storage call as the operation saw it
\* what a storage call handed back besides its error
Reply(model, models, total) == [model |-> model, models |-> models, total |-> total]

NoReply == Reply(NilModel, <<>>, 0)

RepoCall(method, id, model, req, err) ==
    [method |-> method, id |-> id, model |-> model, req |-> req, err |-> err,
     out |-> NoReply]

\* a storage call that succeeded, with what it handed back
Replied(rc, out) == [rc EXCEPT !.out = out]

NoID == StringID(<<>>)

Call(name, id, req, page, size, sortBy, order) ==
    [name |-> name, id |-> id, req |-> req, page |-> page, size |-> size,
     sortBy |-> sortBy, order |-> order]

NoCall == Call("none", NoID, NoRequest, 0, 0, "", "")

Local(model, req) == [model |-> model, req |-> req]

NoLocal == Local(NilModel, NoRequest)

Return(val, err) == [val |-> val, err |-> err]

\* the service as constructed: no operation in progress
ServiceInit ==
    /\ pc = [c \in Callers |-> "idle"]
    /\ op = [c \in Callers |-> NoCall]
    /\ local = [c \in Callers |-> NoLocal]
    /\ repoCalls = [c \in Callers |-> <<>>]
    /\ convCalls = [c \in Callers |-> <<>>]
    /\ ret = [c \in Callers |-> Return(ZeroVal, NoError)]

\* a service that lets one caller in at a time
ReadyAlone(c) == \A d \in DOMAIN pc : pc[d] \in {"idle", "done"}

\* a caller may start an operation when it is not inside one
Ready(c) == pc[c] \in {"idle", "done"}

\* the operation begins: nothing called yet
Begin(c, call, next, loc) ==
    /\ op' = [op EXCEPT ![c] = call]
    /\ pc' = [pc EXCEPT ![c] = next]
    /\ local' = [local EXCEPT ![c] = loc]
    /\ repoCalls' = [repoCalls EXCEPT ![c] = <<>>]
    /\ convCalls' = [convCalls EXCEPT ![c] = <<>>]
    /\ ret' = [ret EXCEPT ![c] = Return(ZeroVal, NoError)]

\* the operation returns before any storage call
Reject(c, call, err) ==
    /\ op' = [op EXCEPT ![c] = call]
    /\ pc' = [pc EXCEPT ![c] = "done"]
    /\ local' = [local EXCEPT ![c] = NoLocal]
    /\ repoCalls' = [repoCalls EXCEPT ![c] = <<>>]
    /\ convCalls' = [convCalls EXCEPT ![c] = <<>>]
    /\ ret' = [ret EXCEPT ![c] = Return(ZeroVal, err)]

\* the storage call failed: the operation returns the wrapped error
Fail(c, rc, prefix) ==
    /\ repoCalls' = [repoCalls EXCEPT ![c] = Append(@, rc)]
    /\ ret' = [ret EXCEPT ![c] = Return(ZeroVal, Wrapf(prefix, rc.err))]
    /\ pc' = [pc EXCEPT ![c] = "done"]
    /\ UNCHANGED <<op, local, convCalls>>

\* the storage call succeeded: the operation converts and returns
Succeed(c, rc, val) ==
    /\ repoCalls' = [repoCalls EXCEPT ![c] = Append(@, rc)]
    /\ convCalls' = [convCalls EXCEPT ![c] = Append(@, val)]
    /\ ret' = [ret EXCEPT ![c] = Return(val, NoError)]
    /\ pc' = [pc EXCEPT ![c] = "done"]
    /\ UNCHANGED <<op, local>>

----------------------------------------------------------------------------
(* BaseGenericDomainService: checks made before the first storage call *)

\* the "invalid ID: %s" error
InvalidID(id) == NewError(<<"invalid ID", String(id)>>)

\* Create: validate, then the type assertion on ToDomainModel()
CreateCheck(req) ==
    IF req.validate # NoError THEN Wrapf("validation failed", req.validate)
    ELSE IF req.toDomainModel.typ # "T"
         THEN NewError(<<"type assertion failed",
                         "cannot convert CreateRequest to domain model">>)
         ELSE NoError

\* GetByID with the zero-ID test left out
GetByIDCheckNoZero(id) == NoError

\* GetByID: the zero-ID test
GetByIDCheck(id) == IF IsZero(id) THEN InvalidID(id) ELSE NoError

\* Update: the zero-ID test, then validate
UpdateCheck(id, req) ==
    IF IsZero(id) THEN InvalidID(id)
    ELSE IF req.validate # NoError THEN Wrapf("validation failed", req.validate)
         ELSE NoError

\* Delete: the zero-ID test
DeleteCheck(id) == IF IsZero(id) THEN InvalidID(id) ELSE NoError

\* Search with params.Validate() left out
SearchCheckNoValidate(params) == NoError

\* Search: validate the query parameters
SearchCheck(params) ==
    IF params.validate # NoError THEN Wrapf("validation failed", params.validate)
    ELSE NoError

\* List's size clamp with the lower test left out
ClampSizeUpperOnly(size) == IF size > MaxPageSize THEN DefaultPageSize ELSE size

\* List: size <= 0 || size > MaxPageSize  =>  DefaultPageSize
ClampSize(size) ==
    IF size <= 0 \/ size > MaxPageSize THEN DefaultPageSize ELSE size

\* List: page < 0  =>  0
ClampPage(page) == IF page < 0 THEN 0 ELSE page

\* Update without the updated.SetID(id) line
UpdatedModelNoSetID(id, req, existing) == ApplyToDomainModel(req, existing)

\* Update: the model handed to storage Update (before the type assertion
\* is looked at): ApplyToDomainModel, then SetID(id)
UpdatedModel(id, req, existing) == SetID(ApplyToDomainModel(req, existing), id)

\* Search's request with the size and page clamped as List does
SearchRequestClamped(params) ==
    [params.toSearchRequest EXCEPT !.Size = ClampSize(@), !.Page = ClampPage(@)]

\* Search: req := params.ToSearchRequest()
SearchRequestOf(params) == params.toSearchRequest

\* Search's response built from the default page and size
SearchResponseDefaults(models, total, req) ==
    ToListResponse(models, total, 0, DefaultPageSize)

\* Search: the list response is built from the request sent to storage
SearchResponse(models, total, req) ==
    ToListResponse(models, total, req.Page, req.Size)

----------------------------------------------------------------------------
(* BaseGenericDomainService: the operations.  Each operation is one step  *)
(* up to its first storage call, and one step per storage call (the call, *)
(* its reply and everything up to the next call or the return).           *)

Create(c, req) ==
    /\ Ready(c)
    /\ LET call == Call("Create", NoID, req, 0, 0, "", "")
           err == CreateCheck(req)
       IN  IF err # NoError THEN Reject(c, call, err)
           ELSE Begin(c, call, "Create.repo", Local(req.toDomainModel, NoRequest))
    /\ UNCHANGED <<curVars, genVars>>

RepoCreate(c) ==
    /\ pc[c] = "Create.repo"
    /\ \/ \E e \in RepoErrors :
            Fail(c, RepoCall("Create", NoID, local[c].model, NoRequest, e),
                 "failed to create")
       \/ \E id \in {i \in IDs : ~IsZero(i)} :
            LET created == SetID(local[c].model, id)
            IN  Succeed(c, Replied(RepoCall("Create", NoID, local[c].model, NoRequest,
                                            NoError), Reply(created, <<>>, 0)),
                        ToResponse(created))
    /\ UNCHANGED <<curVars, genVars>>

GetByID(c, id) ==
    /\ Ready(c)
    /\ LET call == Call("GetByID", id, NoRequest, 0, 0, "", "")
           err == GetByIDCheck(id)
       IN  IF err # NoError THEN Reject(c, call, err)
           ELSE Begin(c, call, "GetByID.repo", NoLocal)
    /\ UNCHANGED <<curVars, genVars>>

RepoGetByID(c) ==
    /\ pc[c] = "GetByID.repo"
    /\ \/ \E e \in RepoErrors :
            Fail(c, RepoCall("GetByID", op[c].id, NilModel, NoRequest, e),
                 "failed to get by ID")
       \/ \E m \in RepoModels :
            Succeed(c, Replied(RepoCall("GetByID", op[c].id, NilModel, NoRequest, NoError),
                               Reply(m, <<>>, 0)),
                    ToResponse(m))
    /\ UNCHANGED <<curVars, genVars>>

Update(c, id, req) ==
    /\ Ready(c)
    /\ LET call == Call("Update", id, req, 0, 0, "", "")
           err == UpdateCheck(id, req)
       IN  IF err # NoError THEN Reject(c, call, err)
           ELSE Begin(c, call, "Update.get", NoLocal)
    /\ UNCHANGED <<curVars, genVars>>

\* Update whose failed lookup does not stop the operation
RepoGetExistingIgnoreErr(c) ==
    /\ pc[c] = "Update.get"
    /\ \E e \in RepoErrors :
          /\ repoCalls' = [repoCalls EXCEPT ![c] =
                 Append(@, RepoCall("GetByID", op[c].id, NilModel, NoRequest, e))]
          /\ local' = [local EXCEPT ![c] =
                 Local(Model(op[c].id, op[c].req.name), NoRequest)]
          /\ pc' = [pc EXCEPT ![c] = "Update.put"]
          /\ UNCHANGED <<op, convCalls, ret>>
    /\ UNCHANGED <<curVars, genVars>>

\* Update, second step: storage GetByID, ApplyToDomainModel, SetID
RepoGetExisting(c) ==
    /\ pc[c] = "Update.get"
    /\ \/ \E e \in RepoErrors :
            Fail(c, RepoCall("GetByID", op[c].id, NilModel, NoRequest, e),
                 "failed to get existing model")
       \/ \E existing \in RepoModels :
            LET rc == Replied(RepoCall("GetByID", op[c].id, NilModel, NoRequest, NoError),
                              Reply(existing, <<>>, 0))
                applied == ApplyToDomainModel(op[c].req, existing)
            IN  /\ repoCalls' = [repoCalls EXCEPT ![c] = Append(@, rc)]
                /\ IF applied.typ # "T"
                   THEN /\ ret' = [ret EXCEPT ![c] = Return(ZeroVal,
                               NewError(<<"type assertion failed",
                                   "cannot convert updated model to domain model">>))]
                        /\ pc' = [pc EXCEPT ![c] = "done"]
                        /\ UNCHANGED local
                   ELSE /\ local' = [local EXCEPT ![c] =
                               Local(UpdatedModel(op[c].id, op[c].req, existing), NoRequest)]
                        /\ pc' = [pc EXCEPT ![c] = "Update.put"]
                        /\ UNCHANGED ret
                /\ UNCHANGED <<op, convCalls>>
    /\ UNCHANGED <<curVars, genVars>>

\* Update, third step: storage Update
RepoUpdate(c) ==
    /\ pc[c] = "Update.put"
    /\ \/ \E e \in RepoErrors :
            Fail(c, RepoCall("Update", NoID, local[c].model, NoRequest, e),
                 "failed to update")
       \/ \E result \in {local[c].model} \cup RepoModels :
            Succeed(c, Replied(RepoCall("Update", NoID, local[c].model, NoRequest, NoError),
                               Reply(result, <<>>, 0)),
                    ToResponse(result))
    /\ UNCHANGED <<curVars, genVars>>

Delete(c, id) ==
    /\ Ready(c)
    /\ LET call == Call("Delete", id, NoRequest, 0, 0, "", "")
           err == DeleteCheck(id)
       IN  IF err # NoError THEN Reject(c, call, err)
           ELSE Begin(c, call, "Delete.repo", NoLocal)
    /\ UNCHANGED <<curVars, genVars>>

\* Delete that calls storage again after a failure
RepoDeleteRetry(c) ==
    /\ pc[c] = "Delete.repo"
    /\ \/ \E e \in RepoErrors :
            /\ Len(repoCalls[c]) < 2
            /\ repoCalls' = [repoCalls EXCEPT ![c] =
                   Append(@, RepoCall("Delete", op[c].id, NilModel, NoRequest, e))]
            /\ UNCHANGED <<pc, op, local, convCalls, ret>>
       \/ /\ repoCalls' = [repoCalls EXCEPT ![c] =
                 Append(@, RepoCall("Delete", op[c].id, NilModel, NoRequest, NoError))]
          /\ ret' = [ret EXCEPT ![c] = Return(ZeroVal, NoError)]
          /\ pc' = [pc EXCEPT ![c] = "done"]
          /\ UNCHANGED <<op, local, convCalls>>
    /\ UNCHANGED <<curVars, genVars>>

RepoDelete(c) ==
    /\ pc[c] = "Delete.repo"
    /\ \/ \E e \in RepoErrors :
            Fail(c, RepoCall("Delete", op[c].id, NilModel, NoRequest, e),
                 "failed to delete")
       \/ /\ repoCalls' = [repoCalls EXCEPT ![c] =
                 Append(@, RepoCall("Delete", op[c].id, NilModel, NoRequest, NoError))]
          /\ ret' = [ret EXCEPT ![c] = Return(ZeroVal, NoError)]
          /\ pc' = [pc EXCEPT ![c] = "done"]
          /\ UNCHANGED <<op, local, convCalls>>
    /\ UNCHANGED <<curVars, genVars>>

List(c, page, size, sortBy, order) ==
    /\ Ready(c)
    /\ Begin(c, Call("List", NoID, NoRequest, page, size, sortBy, order), "List.repo",
             Local(NilModel, ListRequest(ClampPage(page), ClampSize(size), sortBy, order)))
    /\ UNCHANGED <<curVars, genVars>>

RepoList(c) ==
    /\ pc[c] = "List.repo"
    /\ LET req == local[c].req
       IN  \/ \E e \in RepoErrors :
                Fail(c, RepoCall("List", NoID, NilModel, req, e), "failed to list")
           \/ \E models \in ModelLists(MaxModels), total \in 0..MaxTotal :
                Succeed(c, Replied(RepoCall("List", NoID, NilModel, req, NoError),
                                   Reply(NilModel, models, total)),
                        ToListResponse(models, total, req.Page, req.Size))
    /\ UNCHANGED <<curVars, genVars>>

Search(c, params) ==
    /\ Ready(c)
    /\ LET call == Call("Search", NoID, params, 0, 0, "", "")
           err == SearchCheck(params)
       IN  IF err # NoError THEN Reject(c, call, err)
           ELSE Begin(c, call, "Search.repo", Local(NilModel, SearchRequestOf(params)))
    /\ UNCHANGED <<curVars, genVars>>

RepoSearch(c) ==
    /\ pc[c] = "Search.repo"
    /\ LET req == local[c].req
       IN  \/ \E e \in RepoErrors :
                Fail(c, RepoCall("Search", NoID, NilModel, req, e), "failed to search")
           \/ \E models \in ModelLists(MaxModels), total \in 0..MaxTotal :
                Succeed(c, Replied(RepoCall("Search", NoID, NilModel, req, NoError),
                                   Reply(NilModel, models, total)),
                        SearchResponse(models, total, req))
    /\ UNCHANGED <<curVars, genVars>>

Next ==
    \/ \E c \in DOMAIN pc, req \in CreateRequests : Create(c, req)
    \/ \E c \in DOMAIN pc : RepoCreate(c)
    \/ \E c \in DOMAIN pc, id \in IDs : GetByID(c, id)
    \/ \E c \in DOMAIN pc : RepoGetByID(c)
    \/ \E c \in DOMAIN pc, id \in IDs, req \in UpdateRequests : Update(c, id, req)
    \/ \E c \in DOMAIN pc : RepoGetExisting(c)
    \/ \E c \in DOMAIN pc : RepoUpdate(c)
    \/ \E c \in DOMAIN pc, id \in IDs : Delete(c, id)
    \/ \E c \in DOMAIN pc : RepoDelete(c)
    \/ \E c \in DOMAIN pc, page \in Pages, size \in Sizes, sortBy \in SortBys,
          order \in Orders : List(c, page, size, sortBy, order)
    \/ \E c \in DOMAIN pc : RepoList(c)
    \/ \E c \in DOMAIN pc, params \in QueryParams : Search(c, params)
    \/ \E c \in DOMAIN pc : RepoSearch(c)

----------------------------------------------------------------------------
(* Cursor codec: numbers *)

\* m * k + a on a magnitude, k and a small; over is set when the result
\* needs a fifth limb
MagMulAdd(m, k, a) ==
    LET c1 == m[1] * k + a
        c2 == m[2] * k + c1 \div LimbBase
        c3 == m[3] * k + c2 \div LimbBase
        c4 == m[4] * k + c3 \div LimbBase
    IN  [mag |-> <<c1 % LimbBase, c2 % LimbBase, c3 % LimbBase, c4 % LimbBase>>,
         over |-> c4 \div LimbBase > 0]

\* number of significant bits of a limb
LimbBits(x) == CHOOSE b \in 0..16 : x < 2^b /\ (b = 0 \/ x >= 2^(b - 1))

\* number of significant bits of a magnitude
MagBits(m) ==
    IF m[4] # 0 THEN 48 + LimbBits(m[4])
    ELSE IF m[3] # 0 THEN 32 + LimbBits(m[3])
    ELSE IF m[2] # 0 THEN 16 + LimbBits(m[2])
    ELSE LimbBits(m[1])

\* significand width of a float64
MantissaBits == 53

\* the magnitude rounded to the nearest float64 (ties to even); over is set
\* when the rounding carries out of the fourth limb
RoundToFloat64(m) ==
    LET Carry(a1) ==
            LET a2 == m[2] + a1 \div LimbBase
                a3 == m[3] + a2 \div LimbBase
                a4 == m[4] + a3 \div LimbBase
            IN  [mag |-> <<a1 % LimbBase, a2 % LimbBase, a3 % LimbBase, a4 % LimbBase>>,
                 over |-> a4 \div LimbBase > 0]
        Round(unit) ==
            LET low == m[1] % unit
                odd == (m[1] \div unit) % 2 = 1
                up == low > unit \div 2 \/ (low = unit \div 2 /\ odd)
            IN  Carry((m[1] - low) + (IF up THEN unit ELSE 0))
        Shift(bits) ==
            IF bits <= MantissaBits THEN [mag |-> m, over |-> FALSE]
            ELSE Round(2^(bits - MantissaBits))
    IN  Shift(MagBits(m))

\* a float64: sign, whole part, and the decimal digits of the fractional part
\* of its shortest decimal form (<<>> for a whole number)
Float64(neg, mag, frac) == [neg |-> neg, mag |-> mag, frac |-> frac]

FloatZero == Float64(FALSE, MagZero, <<>>)

\* 2^63 as a magnitude
MagTwo63 == <<0, 0, 0, 2^15>>

MaxInt64 == [neg |-> FALSE, mag |-> <<LimbBase - 1, LimbBase - 1, LimbBase - 1, 2^15 - 1>>]
MinInt64 == [neg |-> TRUE, mag |-> MagTwo63]

\* the value fits int64
InInt64Range(neg, mag) == mag[4] < 2^15 \/ (neg /\ mag = MagTwo63)

\* float64(n) for an int64 n
Int64ToFloat64(n) == Float64(n.neg, RoundToFloat64(n.mag).mag, <<>>)

\* int64(f) for a float64 f: truncation toward zero.  Outside the int64 range
\* the result depends on the hardware: 0x8000000000000000 (amd64) or the
\* saturated bound (arm64).
Float64ToInt64(f) ==
    IF InInt64Range(f.neg, f.mag)
    THEN {[neg |-> f.neg /\ f.mag # MagZero, mag |-> f.mag]}
    ELSE {MinInt64, IF f.neg THEN MinInt64 ELSE MaxInt64}

\* f == g on float64 (-0 == 0)
FloatEq(f, g) ==
    /\ f.mag = g.mag
    /\ f.frac = g.frac
    /\ (f.neg = g.neg \/ (f.mag = MagZero /\ f.frac = <<>>))

----------------------------------------------------------------------------
(* Cursor codec: values of type any, cursors *)

AnyNil == [t |-> "nil", s |-> <<>>, n |-> I64(0), f |-> FloatZero, b |-> FALSE]
AnyString(s) == [AnyNil EXCEPT !.t = "string", !.s = s]
AnyInt64(n) == [AnyNil EXCEPT !.t = "int64", !.n = n]
AnyFloat64(f) == [AnyNil EXCEPT !.t = "float64", !.f = f]
AnyBool(b) == [AnyNil EXCEPT !.t = "bool", !.b = b]
\* a value json.Marshal rejects (NaN, a channel, a func)
AnyUnsupported == [AnyNil EXCEPT !.t = "unsupported"]

\* a *Cursor: nil, or a Cursor{ID, Value}
Cursor(id, value) == [nil |-> FALSE, ID |-> id, Value |-> value]
NilCursor == [nil |-> TRUE, ID |-> AnyNil, Value |-> AnyNil]

----------------------------------------------------------------------------
(* Cursor codec: bytes and text.  Text is a sequence of one-character      *)
(* strings; the model's characters are the printable ASCII ones.           *)

\* the printable ASCII characters, code 32 first (code 96 is spelled out)
Ascii == <<
      " ", "!", "\"", "#", "$", "%", "&", "'", "(", ")", "*", "+",
      ",", "-", ".", "/", "0", "1", "2", "3", "4", "5", "6", "7",
      "8", "9", ":", ";", "<", "=", ">", "?", "@", "A", "B", "C",
      "D", "E", "F", "G", "H", "I", "J", "K", "L", "M", "N", "O",
      "P", "Q", "R", "S", "T", "U", "V", "W", "X", "Y", "Z", "[",
      "\\", "]", "^", "_", "BACKTICK", "a", "b", "c", "d", "e", "f", "g",
      "h", "i", "j", "k", "l", "m", "n", "o", "p", "q", "r", "s",
      "t", "u", "v", "w", "x", "y", "z", "{", "|", "}", "~" >>

\* a byte that is not a printable ASCII character
NonPrintable == "\\x"

\* the character of a byte
Chr(b) == IF b >= 32 /\ b <= 126 THEN Ascii[b - 31] ELSE NonPrintable

\* the byte of a printable ASCII character
Ord(ch) == 31 + (CHOOSE i \in 1..Len(Ascii) : Ascii[i] = ch)

\* the alphabet of base64.RawURLEncoding
EncodeURL == <<
      "A", "B", "C", "D", "E", "F", "G", "H", "I", "J", "K", "L", "M", "N", "O", "P",
      "Q", "R", "S", "T", "U", "V", "W", "X", "Y", "Z", "a", "b", "c", "d", "e", "f",
      "g", "h", "i", "j", "k", "l", "m", "n", "o", "p", "q", "r", "s", "t", "u", "v",
      "w", "x", "y", "z", "0", "1", "2", "3", "4", "5", "6", "7", "8", "9", "-", "_" >>

\* index of a character in the alphabet, -1 when it is not in it
DecodeMap(ch) ==
    IF \E i \in 1..64 : EncodeURL[i] = ch
    THEN (CHOOSE i \in 1..64 : EncodeURL[i] = ch) - 1
    ELSE -1

ByteAt(b, i) == IF i <= Len(b) THEN b[i] ELSE 0

\* base64.RawURLEncoding.EncodeToString
EncodeToString(b) ==
    [j \in 1..((Len(b) * 4 + 2) \div 3) |->
        LET q == (j - 1) \div 4
            r == (j - 1) % 4
            b0 == ByteAt(b, 3 * q + 1)
            b1 == ByteAt(b, 3 * q + 2)
            b2 == ByteAt(b, 3 * q + 3)
            v == CASE r = 0 -> b0 \div 4
                   [] r = 1 -> (b0 % 4) * 16 + b1 \div 16
                   [] r = 2 -> (b1 % 16) * 4 + b2 \div 64
                   [] OTHER -> b2 % 64
        IN  EncodeURL[v + 1]]

\* base64.RawURLEncoding.DecodeString: ok is FALSE on a character outside
\* the alphabet (padding included) and on a dangling single character
DecodeString(s) ==
    IF \/ \E i \in 1..Len(s) : DecodeMap(s[i]) = -1
       \/ Len(s) % 4 = 1
    THEN [ok |-> FALSE, bytes |-> <<>>]
    ELSE [ok |-> TRUE,
          bytes |-> [i \in 1..((Len(s) * 3) \div 4) |->
              LET q == (i - 1) \div 3
                  r == (i - 1) % 3
                  s0 == DecodeMap(s[4 * q + 1])
                  s1 == DecodeMap(s[4 * q + 2])
                  s2 == IF 4 * q + 3 <= Len(s) THEN DecodeMap(s[4 * q + 3]) ELSE 0
                  s3 == IF 4 * q + 4 <= Len(s) THEN DecodeMap(s[4 * q + 4]) ELSE 0
              IN  CASE r = 0 -> s0 * 4 + s1 \div 16
                    [] r = 1 -> (s1 % 16) * 16 + s2 \div 4
                    [] OTHER -> (s2 % 4) * 64 + s3]]

\* text as bytes, bytes as text
Bytes(text) == [i \in 1..Len(text) |-> Ord(text[i])]
Text(bytes) == [i \in 1..Len(bytes) |-> Chr(bytes[i])]

----------------------------------------------------------------------------
(* Cursor codec: json.Marshal of a Cursor *)

Quote == "\""
Backslash == "\\"

\* a string of the module as text
Chars(str) ==
    CASE str = "null"   -> <<"n", "u", "l", "l">>
      [] str = "true"   -> <<"t", "r", "u", "e">>
      [] str = "false"  -> <<"f", "a", "l", "s", "e">>
      [] str = "id"     -> <<"i", "d">>
      [] str = "value"  -> <<"v", "a", "l", "u", "e">>
      [] str = "u003c"  -> <<"u", "0", "0", "3", "c">>
      [] str = "u003e"  -> <<"u", "0", "0", "3", "e">>
      [] str = "u0026"  -> <<"u", "0", "0", "2", "6">>

\* encoding/json's escape of one character of a string (HTML escaping on)
EscapeChar(ch) ==
    CASE ch = Quote     -> <<Backslash, Quote>>
      [] ch = Backslash -> <<Backslash, Backslash>>
      [] ch = "<"       -> <<Backslash>> \o Chars("u003c")
      [] ch = ">"       -> <<Backslash>> \o Chars("u003e")
      [] ch = "&"       -> <<Backslash>> \o Chars("u0026")
      [] OTHER          -> <<ch>>

RECURSIVE EscapeString(_)
EscapeString(str) ==
    IF str = <<>> THEN <<>>
    ELSE EscapeChar(Head(str)) \o EscapeString(Tail(str))

\* encoding/json's float64 encoder (the 'f' format, shortest digits)
FormatFloat(f) ==
    (IF f.neg THEN <<"-">> ELSE <<>>)
    \o MagDecimal(f.mag)
    \o (IF f.frac = <<>> THEN <<>> ELSE <<".">> \o f.frac)

\* json.Marshal of a value of type any
MarshalAny(v) ==
    CASE v.t = "nil"     -> Chars("null")
      [] v.t = "string"  -> <<Quote>> \o EscapeString(v.s) \o <<Quote>>
      [] v.t = "int64"   -> FormatInt(v.n)
      [] v.t = "float64" -> FormatFloat(v.f)
      [] v.t = "bool"    -> IF v.b THEN Chars("true") ELSE Chars("false")

\* json.Marshal(c) for a Cursor: ok is FALSE when a field cannot be encoded;
\* "value" is left out when Value is nil (omitempty)
Marshal(c) ==
    IF c.ID.t = "unsupported" \/ c.Value.t = "unsupported"
    THEN [ok |-> FALSE, text |-> <<>>]
    ELSE [ok |-> TRUE,
          text |-> <<"{", Quote>> \o Chars("id") \o <<Quote, ":">> \o MarshalAny(c.ID)
                   \o (IF c.Value.t = "nil" THEN <<>>
                       ELSE <<",", Quote>> \o Chars("value") \o <<Quote, ":">>
                            \o MarshalAny(c.Value))
                   \o <<"}">>]

\* EncodeCursor
EncodeCursor(c) ==
    LET Encoded(m) == IF ~m.ok THEN <<>> ELSE EncodeToString(Bytes(m.text))
    IN  IF c.nil THEN <<>> ELSE Encoded(Marshal(c))

----------------------------------------------------------------------------
(* Cursor codec: json.Unmarshal into a Cursor.  The parser covers objects  *)
(* of strings, numbers without exponent, true, false and null; text it     *)
(* does not cover (nested values, exponents, bytes outside printable       *)
(* ASCII) is reported as "unmodelled", never as valid or invalid.          *)

EOF == "EOF"

\* the character at position p, EOF past the end
At(t, p) == IF p <= Len(t) THEN t[p] ELSE EOF

\* what an unexpected character means
Bad(ch) == IF ch = NonPrintable THEN "unmodelled" ELSE "syntax"

IsDigit(ch) == \E i \in 1..10 : Digits[i] = ch

DigitVal(ch) == (CHOOSE i \in 1..10 : Digits[i] = ch) - 1

\* value of a hexadecimal digit, -1 when it is none
HexVal(ch) ==
    CASE IsDigit(ch)          -> DigitVal(ch)
      [] ch \in {"a", "A"}    -> 10
      [] ch \in {"b", "B"}    -> 11
      [] ch \in {"c", "C"}    -> 12
      [] ch \in {"d", "D"}    -> 13
      [] ch \in {"e", "E"}    -> 14
      [] ch \in {"f", "F"}    -> 15
      [] OTHER                -> -1

\* first position from p on that holds no space
SkipWs(t, p) ==
    CHOOSE q \in p..(Len(t) + 1) :
        At(t, q) # " " /\ \A r \in p..(q - 1) : t[r] = " "

\* first position from p on that holds no digit
DigitsEnd(t, p) ==
    CHOOSE q \in p..(Len(t) + 1) :
        ~IsDigit(At(t, q)) /\ \A r \in p..(q - 1) : IsDigit(t[r])

\* result of parsing one value
Parsed(st, pos, val) == [st |-> st, pos |-> pos, val |-> val]

RECURSIVE ScanString(_, _, _)
\* a string literal from the character after its opening quote
ScanString(t, p, acc) ==
    LET ch == At(t, p)
        e == At(t, p + 1)
        h == [i \in 1..4 |-> HexVal(At(t, p + 1 + i))]
        code == h[3] * 16 + h[4]
    IN  CASE ch = EOF -> Parsed("syntax", p, AnyNil)
          [] ch = NonPrintable -> Parsed("unmodelled", p, AnyNil)
          [] ch = Quote -> Parsed("ok", p + 1, AnyString(acc))
          [] ch = Backslash /\ e \in {Quote, Backslash, "/"} ->
                ScanString(t, p + 2, Append(acc, e))
          [] ch = Backslash /\ e \in {"b", "f", "n", "r", "t"} ->
                Parsed("unmodelled", p, AnyNil)
          [] ch = Backslash /\ e = "u" ->
                IF \E i \in 1..4 : h[i] = -1 THEN Parsed("syntax", p, AnyNil)
                ELSE IF h[1] = 0 /\ h[2] = 0 /\ code >= 32 /\ code <= 126
                     THEN ScanString(t, p + 6, Append(acc, Chr(code)))
                     ELSE Parsed("unmodelled", p, AnyNil)
          [] ch = Backslash -> Parsed("syntax", p, AnyNil)
          [] OTHER -> ScanString(t, p + 1, Append(acc, ch))

\* the magnitude written by decimal digits (no leading zeros): the digits
\* are taken in five groups of four; over is set past 2^64 - 1
MagOfDigits(ds) ==
    LET digit(r) == IF r < Len(ds) THEN DigitVal(ds[Len(ds) - r]) ELSE 0
        group(k) == digit(4 * k) + 10 * digit(4 * k + 1) + 100 * digit(4 * k + 2)
                    + 1000 * digit(4 * k + 3)
        Add(m, k) == MagMulAdd(m.mag, 10^4, group(k))
        Over(m, n) == [n EXCEPT !.over = m.over \/ n.over]
        Next4(m, k) == Over(m, Add(m, k))
    IN  Next4(Next4(Next4(Next4(Next4([mag |-> MagZero, over |-> Len(ds) > 20], 4), 3), 2), 1), 0)

\* digits without their trailing zeros
TrimZeros(ds) ==
    IF \E i \in 1..Len(ds) : ds[i] # "0"
    THEN SubSeq(ds, 1, CHOOSE i \in 1..Len(ds) :
                           ds[i] # "0" /\ \A j \in (i + 1)..Len(ds) : ds[j] = "0")
    ELSE <<>>

\* decimal digits a float64 always carries exactly
ExactDigits == 15

\* strconv.ParseFloat of <whole>.<frac>: the nearest float64
ParseFloat(neg, whole, frac) ==
    LET Whole(r) == [ok |-> ~r.over, f |-> Float64(neg, r.mag, <<>>)]
        Float(w, fr) ==
            IF w.over THEN [ok |-> FALSE, f |-> FloatZero]
            ELSE IF fr = <<>> THEN Whole(RoundToFloat64(w.mag))
            ELSE [ok |-> Len(whole) + Len(fr) <= ExactDigits,
                  f |-> Float64(neg, w.mag, fr)]
    IN  Float(MagOfDigits(whole), TrimZeros(frac))

\* a number literal
ParseNumber(t, p) ==
    LET neg == At(t, p) = "-"
        p1 == IF neg THEN p + 1 ELSE p
        Number(p2, p3, f) ==
            IF ~IsDigit(At(t, p1)) THEN Parsed(Bad(At(t, p1)), p1, AnyNil)
            ELSE IF At(t, p2) = "." /\ p3 = p2 + 1 THEN Parsed(Bad(At(t, p3)), p3, AnyNil)
            ELSE IF At(t, p3) \in {"e", "E"} THEN Parsed("unmodelled", p3, AnyNil)
            ELSE IF ~f.ok THEN Parsed("unmodelled", p3, AnyNil)
            ELSE Parsed("ok", p3, AnyFloat64(f.f))
        Fraction(p2, p3) ==
            Number(p2, p3,
                   ParseFloat(neg, SubSeq(t, p1, p2 - 1),
                              IF At(t, p2) = "." THEN SubSeq(t, p2 + 1, p3 - 1) ELSE <<>>))
        Whole(p2) ==
            Fraction(p2, IF At(t, p2) = "." THEN DigitsEnd(t, p2 + 1) ELSE p2)
    IN  Whole(IF At(t, p1) = "0" THEN p1 + 1 ELSE DigitsEnd(t, p1))

\* the literal lit stands at position p
Literal(t, p, lit) ==
    /\ p + Len(lit) - 1 <= Len(t)
    /\ SubSeq(t, p, p + Len(lit) - 1) = lit

\* a value that is no object and no array, decoded as json decodes into any:
\* every number becomes a float64
ParseValue(t, p) ==
    LET ch == At(t, p)
    IN  CASE ch = Quote -> ScanString(t, p + 1, <<>>)
          [] ch = "-" \/ IsDigit(ch) -> ParseNumber(t, p)
          [] ch = "t" -> IF Literal(t, p, Chars("true"))
                         THEN Parsed("ok", p + 4, AnyBool(TRUE))
                         ELSE Parsed("syntax", p, AnyNil)
          [] ch = "f" -> IF Literal(t, p, Chars("false"))
                         THEN Parsed("ok", p + 5, AnyBool(FALSE))
                         ELSE Parsed("syntax", p, AnyNil)
          [] ch = "n" -> IF Literal(t, p, Chars("null"))
                         THEN Parsed("ok", p + 4, AnyNil)
                         ELSE Parsed("syntax", p, AnyNil)
          [] ch \in {"{", "["} -> Parsed("unmodelled", p, AnyNil)
          [] OTHER -> Parsed(Bad(ch), p, AnyNil)

\* ASCII lower case of a character
Lower(ch) ==
    IF (\E i \in 34..59 : Ascii[i] = ch)
    THEN Ascii[(CHOOSE i \in 34..59 : Ascii[i] = ch) + 32]
    ELSE ch

\* the Cursor field an object key names; keys match case-insensitively and
\* an unknown key is skipped
SetField(c, key, val) ==
    LET k == [i \in 1..Len(key) |-> Lower(key[i])]
    IN  CASE k = Chars("id")    -> [c EXCEPT !.ID = val]
          [] k = Chars("value") -> [c EXCEPT !.Value = val]
          [] OTHER              -> c

\* result of parsing into a Cursor
ParsedCursor(st, pos, c) == [st |-> st, pos |-> pos, c |-> c]

RECURSIVE ParseMembers(_, _, _)
\* the members of an object from position p, applied to c in order
ParseMembers(t, p, c) ==
    LET Member(k, v, after, c2) ==
            IF v.st # "ok" THEN ParsedCursor(v.st, v.pos, c)
            ELSE IF At(t, after) = "," THEN ParseMembers(t, SkipWs(t, after + 1), c2)
            ELSE IF At(t, after) = "}" THEN ParsedCursor("ok", after + 1, c2)
            ELSE ParsedCursor(Bad(At(t, after)), after, c)
        Value(k, v) == Member(k, v, SkipWs(t, v.pos), SetField(c, k.val.s, v.val))
        Colon(k, colon) ==
            IF At(t, colon) # ":" THEN ParsedCursor(Bad(At(t, colon)), colon, c)
            ELSE Value(k, ParseValue(t, SkipWs(t, colon + 1)))
        Key(k) ==
            IF k.st # "ok" THEN ParsedCursor(k.st, k.pos, c)
            ELSE Colon(k, SkipWs(t, k.pos))
    IN  IF At(t, p) # Quote THEN ParsedCursor(Bad(At(t, p)), p, c)
        ELSE Key(ScanString(t, p + 1, <<>>))

\* json.Unmarshal(text, &c): st is "ok", "syntax" (SyntaxError), "type"
\* (UnmarshalTypeError: the text is a value but no object) or "unmodelled"
Unmarshal(t, c) ==
    LET Rest(r, rest) ==
            IF r.st \in {"syntax", "unmodelled"} THEN r
            ELSE IF rest # EOF THEN ParsedCursor(Bad(rest), r.pos, c)
            ELSE r
        End(r) == Rest(r, At(t, SkipWs(t, r.pos)))
        Object(q) ==
            IF At(t, q) = "}" THEN ParsedCursor("ok", q + 1, c)
            ELSE ParseMembers(t, q, c)
        NoObject(v) ==
            ParsedCursor(IF v.st = "ok" /\ v.val.t # "nil" THEN "type" ELSE v.st, v.pos, c)
        Top(p) ==
            End(IF At(t, p) = "{" THEN Object(SkipWs(t, p + 1))
                ELSE NoObject(ParseValue(t, p)))
    IN  Top(SkipWs(t, 1))

----------------------------------------------------------------------------
(* Cursor codec: DecodeCursor *)

\* normalizeJSONNumber: a float64 f with f == float64(int64(f)) becomes
\* int64(f); the set holds one outcome per int64(f) the hardware may produce
normalizeJSONNumber(v) ==
    IF v.t = "float64"
    THEN {IF FloatEq(v.f, Int64ToFloat64(x)) THEN AnyInt64(x) ELSE v :
             x \in Float64ToInt64(v.f)}
    ELSE {v}

\* what DecodeCursor returned: (*Cursor, error)
Decoded(c, err) == [status |-> "returned", c |-> c, err |-> err]

\* DecodeCursor met text the parser does not cover
Unmodelled == [status |-> "unmodelled", c |-> NilCursor, err |-> NoError]

\* DecodeCursor has not run
NotDecoded == [status |-> "none", c |-> NilCursor, err |-> NoError]

CorruptInputError == NewError(<<"illegal base64 data">>)
SyntaxError == NewError(<<"invalid character">>)
UnmarshalTypeError == NewError(<<"json", "cannot unmarshal into Go value of type entdomain.Cursor">>)

\* DecodeCursor without the c.ID == nil test
DecodeCursorNoIDCheck(s) ==
    LET Unmarshaled(u) ==
            IF u.st = "unmodelled" THEN {Unmodelled}
            ELSE IF u.st = "syntax"
                 THEN {Decoded(NilCursor, Wrapf("invalid cursor data", SyntaxError))}
            ELSE IF u.st = "type"
                 THEN {Decoded(NilCursor, Wrapf("invalid cursor data", UnmarshalTypeError))}
            ELSE {Decoded(Cursor(id, value), NoError) :
                     id \in normalizeJSONNumber(u.c.ID),
                     value \in normalizeJSONNumber(u.c.Value)}
        Base64(b) ==
            IF ~b.ok
            THEN {Decoded(NilCursor, Wrapf("invalid cursor encoding", CorruptInputError))}
            ELSE Unmarshaled(Unmarshal(Text(b.bytes), Cursor(AnyNil, AnyNil)))
    IN  IF s = <<>> THEN {Decoded(NilCursor, NewError(<<"cursor cannot be empty">>))}
        ELSE Base64(DecodeString(s))

\* DecodeCursor: the set of results the build may produce
DecodeCursor(s) ==
    LET Unmarshaled(u) ==
            IF u.st = "unmodelled" THEN {Unmodelled}
            ELSE IF u.st = "syntax"
                 THEN {Decoded(NilCursor, Wrapf("invalid cursor data", SyntaxError))}
            ELSE IF u.st = "type"
                 THEN {Decoded(NilCursor, Wrapf("invalid cursor data", UnmarshalTypeError))}
            ELSE IF u.c.ID.t = "nil"
                 THEN {Decoded(NilCursor, NewError(<<"cursor missing required ID field">>))}
            ELSE {Decoded(Cursor(id, value), NoError) :
                     id \in normalizeJSONNumber(u.c.ID),
                     value \in normalizeJSONNumber(u.c.Value)}
        Base64(b) ==
            IF ~b.ok
            THEN {Decoded(NilCursor, Wrapf("invalid cursor encoding", CorruptInputError))}
            ELSE Unmarshaled(Unmarshal(Text(b.bytes), Cursor(AnyNil, AnyNil)))
    IN  IF s = <<>> THEN {Decoded(NilCursor, NewError(<<"cursor cannot be empty">>))}
        ELSE Base64(DecodeString(s))

----------------------------------------------------------------------------
(* Cursor codec: inputs and steps *)

\* 2^53 and 2^53 + 1
TwoTo53 == [neg |-> FALSE, mag |-> <<0, 0, 0, 32>>]
TwoTo53Plus1 == [neg |-> FALSE, mag |-> <<1, 0, 0, 32>>]

CursorIDs ==
    {AnyNil,
     AnyString(<<>>), AnyString(<<"a">>), AnyString(<<"4", "2">>),
     AnyString(<<"u", Quote, "<", Backslash, "&">>),
     AnyInt64(I64(0)), AnyInt64(I64(42)), AnyInt64(I64(-7)), AnyInt64(I64(12345)),
     AnyInt64(TwoTo53), AnyInt64(TwoTo53Plus1), AnyInt64(MaxInt64), AnyInt64(MinInt64)}

CursorValues ==
    {AnyNil, AnyUnsupported,
     AnyString(<<>>), AnyString(<<"A", "l", ">">>),
     AnyInt64(I64(42)), AnyInt64([TwoTo53Plus1 EXCEPT !.neg = TRUE]),
     AnyFloat64(Float64(FALSE, MagOfNat(3), <<"1", "4">>)),
     AnyFloat64(Float64(TRUE, MagOfNat(2), <<"5">>)),
     AnyFloat64(Float64(FALSE, MagOfNat(42), <<>>)),
     AnyBool(TRUE), AnyBool(FALSE)}

Cursors == {NilCursor} \cup {Cursor(id, v) : id \in CursorIDs, v \in CursorValues}

\* characters outside the alphabet
TokNotBase64 ==
    <<"!", "!", "!", "n", "o", "t", "-", "b", "a", "s", "e", "6", "4", "!",
      "!", "!">>

\* a dangling single character (length 4k+1)
TokDangling ==
    <<"e", "y", "J", "p", "Z", "C", "I", "6", "M">>

\* {} with padding
TokPadded ==
    <<"e", "3", "0", "=">>

\* a character of the standard alphabet
TokStdAlphabet ==
    <<"e", "3", "0", "+">>

\* base64 of  not-json
TokNotJSON ==
    <<"b", "m", "9", "0", "L", "W", "p", "z", "b", "2", "4">>

\* base64 of  {"id":1}x
TokTrailing ==
    <<"e", "y", "J", "p", "Z", "C", "I", "6", "M", "X", "1", "4">>

\* base64 of  {"id":1
TokUnclosed ==
    <<"e", "y", "J", "p", "Z", "C", "I", "6", "M", "Q">>

\* base64 of  {"id":01}
TokLeadingZero ==
    <<"e", "y", "J", "p", "Z", "C", "I", "6", "M", "D", "F", "9">>

\* base64 of  "abc"
TokScalar ==
    <<"I", "m", "F", "i", "Y", "y", "I">>

\* base64 of  {"value":"test"}
TokMissingID ==
    <<"e", "y", "J", "2", "Y", "W", "x", "1", "Z", "S", "I", "6", "I", "n",
      "R", "l", "c", "3", "Q", "i", "f", "Q">>

\* base64 of  {}
TokEmptyObject ==
    <<"e", "3", "0">>

\* base64 of  {"id":null}
TokNullID ==
    <<"e", "y", "J", "p", "Z", "C", "I", "6", "b", "n", "V", "s", "b", "H",
      "0">>

\* base64 of  {"id":null,"value":1}
TokNullIDValue ==
    <<"e", "y", "J", "p", "Z", "C", "I", "6", "b", "n", "V", "s", "b", "C",
      "w", "i", "d", "m", "F", "s", "d", "W", "U", "i", "O", "j", "F", "9">>

\* base64 of  null
TokNull ==
    <<"b", "n", "V", "s", "b", "A">>

\* base64 of  {"ID":7}
TokUpperKey ==
    <<"e", "y", "J", "J", "R", "C", "I", "6", "N", "3", "0">>

\* base64 of  { "id" : 1, "id" : "x" }
TokTwice ==
    <<"e", "y", "A", "i", "a", "W", "Q", "i", "I", "D", "o", "g", "M", "S",
      "w", "g", "I", "m", "l", "k", "I", "i", "A", "6", "I", "C", "J", "4",
      "I", "i", "B", "9">>

\* base64 of  {"id":1.50,"value":-0}
TokFraction ==
    <<"e", "y", "J", "p", "Z", "C", "I", "6", "M", "S", "4", "1", "M", "C",
      "w", "i", "d", "m", "F", "s", "d", "W", "U", "i", "O", "i", "0", "w",
      "f", "Q">>

\* tokens handed to DecodeCursor that EncodeCursor did not produce
Tokens ==
    {<<>>, TokNotBase64, TokDangling, TokPadded, TokStdAlphabet, TokNotJSON,
     TokTrailing, TokUnclosed, TokLeadingZero, TokScalar,
     TokMissingID, TokEmptyObject, TokNullID, TokNullIDValue, TokNull,
     TokUpperKey, TokTwice, TokFraction}

CursorIdle ==
    /\ cur = NilCursor
    /\ tok = <<>>
    /\ dec = NotDecoded
    /\ cpc = "off"

\* no template function has been called
GenIdle ==
    /\ genCall = [fn |-> "none"]
    /\ genOut = FALSE

Init == ServiceInit /\ CursorIdle /\ GenIdle

InitCursor ==
    /\ ServiceInit
    /\ GenIdle
    /\ cur = NilCursor
    /\ tok = <<>>
    /\ dec = NotDecoded
    /\ cpc = "start"

\* a caller encodes a cursor
Encode(c) ==
    /\ cpc = "start"
    /\ cur' = c
    /\ tok' = EncodeCursor(c)
    /\ cpc' = "encoded"
    /\ UNCHANGED dec
    /\ UNCHANGED <<svcVars, genVars>>

\* a caller is handed a token from outside
Receive(t) ==
    /\ cpc = "start"
    /\ tok' = t
    /\ cpc' = "received"
    /\ UNCHANGED <<cur, dec>>
    /\ UNCHANGED <<svcVars, genVars>>

\* the token is decoded
Decode ==
    /\ cpc \in {"encoded", "received"}
    /\ dec' \in DecodeCursor(tok)
    /\ cpc' = IF cpc = "encoded" THEN "roundtrip" ELSE "decoded"
    /\ UNCHANGED <<cur, tok>>
    /\ UNCHANGED <<svcVars, genVars>>

NextCursor ==
    \/ \E c \in Cursors : Encode(c)
    \/ \E t \in Tokens : Receive(t)
    \/ Decode

\* the CRUD runtime
Spec == Init /\ [][Next]_vars

\* the cursor codec
SpecCursor == InitCursor /\ [][NextCursor]_vars

----------------------------------------------------------------------------
(* Two callers in Update on one ID.  The service holds repo and conv, set  *)
(* by NewBaseGenericDomainService and only read by the operations: what an *)
(* operation writes is local to its call.                                  *)

ConcurrentCallers == {1, 2}

\* the ID both callers update
SharedID == Int64ID(I64(7))

ConcurrentRequests == {req \in UpdateRequests : req.apply \in {"keep", "alter"}}

InitConcurrent ==
    /\ pc = [c \in ConcurrentCallers |-> "idle"]
    /\ op = [c \in ConcurrentCallers |-> NoCall]
    /\ local = [c \in ConcurrentCallers |-> NoLocal]
    /\ repoCalls = [c \in ConcurrentCallers |-> <<>>]
    /\ convCalls = [c \in ConcurrentCallers |-> <<>>]
    /\ ret = [c \in ConcurrentCallers |-> Return(ZeroVal, NoError)]
    /\ CursorIdle
    /\ GenIdle

NextConcurrent ==
    \/ \E c \in DOMAIN pc, req \in ConcurrentRequests : Update(c, SharedID, req)
    \/ \E c \in DOMAIN pc : RepoGetExisting(c)
    \/ \E c \in DOMAIN pc : RepoUpdate(c)

\* the runtime with two concurrent callers
SpecConcurrent == InitConcurrent /\ [][NextConcurrent]_vars

----------------------------------------------------------------------------
(* Code generator: field annotations (DomainField) and their generic form.  *)
(* Validation, Example and Metadata are carried through by the generator    *)
(* and read by none of its functions; the model leaves them out.            *)

ScopeCreate == "create"
ScopeUpdate == "update"
ScopeQuery == "query"
ScopeResponse == "response"

AllFieldScopes == <<ScopeCreate, ScopeUpdate, ScopeQuery, ScopeResponse>>

\* a []FieldScope: nil, or a list
NilScopes == [nil |-> TRUE, list |-> <<>>]
ScopeList(list) == [nil |-> FALSE, list |-> list]

\* a map[FieldScope]bool: nil, or a set of <<scope, bool>> entries, one per scope
NilRequired == [nil |-> TRUE, m |-> {}]
RequiredMap(m) == [nil |-> FALSE, m |-> m]

\* DomainField{}
NewDomainField ==
    [Scopes |-> NilScopes, Required |-> NilRequired, Description |-> "",
     Sensitive |-> FALSE, Searchable |-> FALSE, Sortable |-> FALSE,
     Filterable |-> FALSE, UniqueLookup |-> FALSE, RangeLookup |-> FALSE]

\* a *DomainField: nil, or a pointer to an annotation
NilAnnotation == [nil |-> TRUE, df |-> NewDomainField]
Annotation(df) == [nil |-> FALSE, df |-> df]

\* the builders of annotations
DomainFieldWithScopes(scopes) ==
    [NewDomainField EXCEPT !.Scopes = IF scopes = <<>> THEN NilScopes ELSE ScopeList(scopes)]
AsSearchable(d) == [d EXCEPT !.Searchable = TRUE]
AsSortable(d) == [d EXCEPT !.Sortable = TRUE]
AsFilterable(d) == [d EXCEPT !.Filterable = TRUE]
AsUniqueLookup(d) == [d EXCEPT !.UniqueLookup = TRUE]
AsRangeLookup(d) == [d EXCEPT !.RangeLookup = TRUE]
DefaultField == AsSortable(AsFilterable(AsSearchable(DomainFieldWithScopes(AllFieldScopes))))
OutputOnlyField ==
    AsSortable(AsFilterable(AsSearchable(DomainFieldWithScopes(<<ScopeQuery, ScopeResponse>>))))

\* a value of type interface{} inside a map[string]interface{}: nil, a bool,
\* a string, a number, a []interface{} (l), a map[string]interface{} (m: a
\* set of <<key, value>> entries, one per key) or a value json.Marshal
\* rejects (a channel, a func)
GenericNil == [t |-> "nil", b |-> FALSE, s |-> "", n |-> 0, l |-> <<>>, m |-> {}]
GenericBool(b) == [GenericNil EXCEPT !.t = "bool", !.b = b]
GenericString(s) == [GenericNil EXCEPT !.t = "string", !.s = s]
GenericNumber(n) == [GenericNil EXCEPT !.t = "number", !.n = n]
GenericList(l) == [GenericNil EXCEPT !.t = "list", !.l = l]
GenericMap(m) == [GenericNil EXCEPT !.t = "map", !.m = m]
GenericUnsupported == [GenericNil EXCEPT !.t = "unsupported"]

\* the value a map holds under a key it has
MapValue(m, key) == (CHOOSE e \in m : e[1] = key)[2]

\* field.Annotations (gen.Annotations) as getDomainFieldAnnotation sees it:
\* a nil store, a store without the "DomainField" key, or the entry under
\* that key: a *DomainField, a DomainField stored by value, a
\* map[string]interface{}, or a value of another type (an int)
Annotations(kind, df, m) == [kind |-> kind, df |-> df, m |-> m]
NilAnnotations == Annotations("nil", NewDomainField, {})
OtherAnnotations == Annotations("nokey", NewDomainField, {})
DirectAnnotations(df) == Annotations("pointer", df, {})
ValueAnnotations(df) == Annotations("value", df, {})
MapAnnotations(m) == Annotations("map", NewDomainField, m)
IntAnnotations == Annotations("int", NewDomainField, {})

\* the text of a Go type
StringIdent == <<"s", "t", "r", "i", "n", "g">>
IntIdent == <<"i", "n", "t">>
Int32Ident == <<"i", "n", "t", "3", "2">>
Int64Ident == <<"i", "n", "t", "6", "4">>
BoolIdent == <<"b", "o", "o", "l">>
TimeIdent == <<"t", "i", "m", "e", ".", "T", "i", "m", "e">>
Float64Ident == <<"f", "l", "o", "a", "t", "6", "4">>
BytesIdent == <<"[", "]", "b", "y", "t", "e">>
RawMessageIdent == <<"j", "s", "o", "n", ".", "R", "a", "w", "M", "e", "s", "s", "a", "g", "e">>
StringsIdent == <<"[", "]", "s", "t", "r", "i", "n", "g">>
MapIdent == <<"m", "a", "p", "[", "s", "t", "r", "i", "n", "g", "]", "a", "n", "y">>
URLIdent == <<"*", "u", "r", "l", ".", "U", "R", "L">>
UUIDIdent == <<"u", "u", "i", "d", ".", "U", "U", "I", "D">>
NoIdent == <<>>

\* a field.TypeInfo: the kind of the field and the Go type it was given
TypeInfo(type, ident) == [Type |-> type, Ident |-> ident]

\* the name of a kind of field
typeNames(type) ==
    CASE type = "TypeBool"    -> BoolIdent
      [] type = "TypeTime"    -> TimeIdent
      [] type = "TypeJSON"    -> RawMessageIdent
      [] type = "TypeBytes"   -> BytesIdent
      [] type = "TypeEnum"    -> StringIdent
      [] type = "TypeString"  -> StringIdent
      [] type = "TypeInt"     -> IntIdent
      [] type = "TypeInt32"   -> Int32Ident
      [] type = "TypeInt64"   -> Int64Ident
      [] type = "TypeFloat64" -> Float64Ident
      [] type = "TypeUUID"    -> <<"[", "1", "6", "]", "b", "y", "t", "e">>

\* field.Type.String(): the Go type if one was given, else the kind's name
TypeString(ti) == IF ti.Ident # NoIdent THEN ti.Ident ELSE typeNames(ti.Type)

\* a gen.Field: Name, Type, Immutable, Default, Annotations
Field(name, type, immutable, default, annotations) ==
    [Name |-> name, Type |-> type, Immutable |-> immutable,
     Default |-> default, Annotations |-> annotations]

IsEnumIdent(field) == field.Type.Ident = <<"e", "n", "u", "m">>

\* field.IsEnum()
IsEnum(field) == field.Type.Type = "TypeEnum"

----------------------------------------------------------------------------
(* Code generator: encoding/json between map[string]interface{} and         *)
(* DomainField.  Strings are whole values here; the escaping of a string    *)
(* and its reading back are modelled character by character in the cursor   *)
(* codec.                                                                   *)

\* the keys the modelled maps use, in the byte order json.Marshal sorts them
KeyOrder ==
    <<"Scopes", "description", "extra", "filterable", "range_lookup", "required",
      "scopes", "searchable", "sensitive", "sortable", "unique_lookup">>

\* json.Marshal accepts the value
Marshalable(v) ==
    /\ v.t # "unsupported"
    /\ \A i \in 1..Len(v.l) : v.l[i].t # "unsupported"
    /\ \A e \in v.m : e[2].t # "unsupported"

\* json.Marshal(m) of a map[string]interface{}: the members of the object,
\* sorted by key
MarshalMap(m) ==
    LET Members(keys) == [i \in 1..Len(keys) |-> <<keys[i], MapValue(m, keys[i])>>]
    IN  [ok |-> \A e \in m : Marshalable(e[2]),
         doc |-> Members(SelectSeq(KeyOrder, LAMBDA k : \E e \in m : e[1] = k))]

\* TagOfKey with the lookup tags spelled in camel case
TagOfKeyCamel(key) ==
    CASE key \in {"scopes", "required", "description", "sensitive", "searchable",
                  "sortable", "filterable", "uniqueLookup", "rangeLookup"} -> key
      [] key = "Scopes" -> "scopes"
      [] OTHER -> "none"

\* the json tag of DomainField an object key selects: the exact tag, else a
\* tag equal to it under case folding, else none
TagOfKey(key) ==
    CASE key \in {"scopes", "required", "description", "sensitive", "searchable",
                  "sortable", "filterable", "unique_lookup", "range_lookup"} -> key
      [] key = "Scopes" -> "scopes"
      [] OTHER -> "none"

\* state of json.Unmarshal: the struct being filled and whether an
\* UnmarshalTypeError was saved
Unmarshaling(df, err) == [df |-> df, err |-> err]

\* one element of a JSON array decoded into a FieldScope
ScopeOf(v) == IF v.t = "string" THEN v.s ELSE ""

\* a JSON value decoded into Scopes []FieldScope
UnmarshalScopes(st, v) ==
    CASE v.t = "nil" -> Unmarshaling([st.df EXCEPT !.Scopes = NilScopes], st.err)
      [] v.t = "list" ->
            Unmarshaling(
                [st.df EXCEPT !.Scopes = ScopeList([i \in 1..Len(v.l) |-> ScopeOf(v.l[i])])],
                st.err \/ \E i \in 1..Len(v.l) : v.l[i].t \notin {"string", "nil"})
      [] OTHER -> Unmarshaling(st.df, TRUE)

\* a JSON value decoded into Required map[FieldScope]bool: the entries are
\* added to the map the struct already holds
UnmarshalRequired(st, v) ==
    CASE v.t = "nil" -> Unmarshaling([st.df EXCEPT !.Required = NilRequired], st.err)
      [] v.t = "map" ->
            Unmarshaling(
                [st.df EXCEPT !.Required = RequiredMap(
                    {e \in st.df.Required.m : \A f \in v.m : f[1] # e[1]}
                    \cup {<<f[1], f[2].t = "bool" /\ f[2].b>> : f \in v.m})],
                st.err \/ \E f \in v.m : f[2].t \notin {"bool", "nil"})
      [] OTHER -> Unmarshaling(st.df, TRUE)

\* a JSON value decoded into a bool field
UnmarshalBool(st, v, With(_, _)) ==
    CASE v.t = "nil" -> st
      [] v.t = "bool" -> Unmarshaling(With(st.df, v.b), st.err)
      [] OTHER -> Unmarshaling(st.df, TRUE)

\* a JSON value decoded into Description string
UnmarshalDescription(st, v) ==
    CASE v.t = "nil" -> st
      [] v.t = "string" -> Unmarshaling([st.df EXCEPT !.Description = v.s], st.err)
      [] OTHER -> Unmarshaling(st.df, TRUE)

\* one member of the object decoded into the struct; a key that selects no
\* field is skipped, and decoding goes on after a type error
UnmarshalMember(st, key, v) ==
    CASE TagOfKey(key) = "scopes" -> UnmarshalScopes(st, v)
      [] TagOfKey(key) = "required" -> UnmarshalRequired(st, v)
      [] TagOfKey(key) = "description" -> UnmarshalDescription(st, v)
      [] TagOfKey(key) = "sensitive" ->
            UnmarshalBool(st, v, LAMBDA d, b : [d EXCEPT !.Sensitive = b])
      [] TagOfKey(key) = "searchable" ->
            UnmarshalBool(st, v, LAMBDA d, b : [d EXCEPT !.Searchable = b])
      [] TagOfKey(key) = "sortable" ->
            UnmarshalBool(st, v, LAMBDA d, b : [d EXCEPT !.Sortable = b])
      [] TagOfKey(key) = "filterable" ->
            UnmarshalBool(st, v, LAMBDA d, b : [d EXCEPT !.Filterable = b])
      [] TagOfKey(key) = "unique_lookup" ->
            UnmarshalBool(st, v, LAMBDA d, b : [d EXCEPT !.UniqueLookup = b])
      [] TagOfKey(key) = "range_lookup" ->
            UnmarshalBool(st, v, LAMBDA d, b : [d EXCEPT !.RangeLookup = b])
      [] OTHER -> st

RECURSIVE UnmarshalMembers(_, _, _)
\* the members of the object from the i-th on, in order
UnmarshalMembers(doc, i, st) ==
    IF i > Len(doc) THEN st
    ELSE UnmarshalMembers(doc, i + 1, UnmarshalMember(st, doc[i][1], doc[i][2]))

\* json.Unmarshal(data, &df) with var df DomainField
UnmarshalDomainField(doc) ==
    UnmarshalMembers(doc, 1, Unmarshaling(NewDomainField, FALSE))

----------------------------------------------------------------------------
(* Code generator: the annotation resolver and the scope checks *)

\* getDomainFieldAnnotation that returns &df whatever json.Unmarshal reported
getDomainFieldAnnotationPartial(field) ==
    LET Unmarshaled(st) == Annotation(st.df)
        Marshaled(data) ==
            IF ~data.ok THEN NilAnnotation
            ELSE Unmarshaled(UnmarshalDomainField(data.doc))
    IN  CASE field.Annotations.kind \in {"nil", "nokey"} -> NilAnnotation
          [] field.Annotations.kind = "pointer" -> Annotation(field.Annotations.df)
          [] field.Annotations.kind = "map" -> Marshaled(MarshalMap(field.Annotations.m))
          [] OTHER -> NilAnnotation

\* getDomainFieldAnnotation
getDomainFieldAnnotation(field) ==
    LET Unmarshaled(st) == IF st.err THEN NilAnnotation ELSE Annotation(st.df)
        Marshaled(data) ==
            IF ~data.ok THEN NilAnnotation
            ELSE Unmarshaled(UnmarshalDomainField(data.doc))
    IN  CASE field.Annotations.kind \in {"nil", "nokey"} -> NilAnnotation
          [] field.Annotations.kind = "pointer" -> Annotation(field.Annotations.df)
          [] field.Annotations.kind = "map" -> Marshaled(MarshalMap(field.Annotations.m))
          [] OTHER -> NilAnnotation

\* hasDomainScope that looks at the first scope only
hasDomainScopeFirst(field, scope) ==
    LET Has(annotation) ==
            /\ ~annotation.nil
            /\ Len(annotation.df.Scopes.list) > 0
            /\ annotation.df.Scopes.list[1] = scope
    IN  Has(getDomainFieldAnnotation(field))

\* hasDomainScope
hasDomainScope(field, scope) ==
    LET Has(annotation) ==
            /\ ~annotation.nil
            /\ \E i \in 1..Len(annotation.df.Scopes.list) :
                   annotation.df.Scopes.list[i] = scope
    IN  Has(getDomainFieldAnnotation(field))

\* isDomainRequired that returns whether the key exists
isDomainRequiredExists(field, scope) ==
    LET Required(annotation) ==
            /\ ~annotation.nil
            /\ ~annotation.df.Required.nil
            /\ \E e \in annotation.df.Required.m : e[1] = scope
    IN  Required(getDomainFieldAnnotation(field))

\* isDomainRequired
isDomainRequired(field, scope) ==
    LET Required(annotation) ==
            /\ ~annotation.nil
            /\ ~annotation.df.Required.nil
            /\ \E e \in annotation.df.Required.m : e[1] = scope /\ e[2]
    IN  Required(getDomainFieldAnnotation(field))

----------------------------------------------------------------------------
(* Code generator: type checks and field selectors *)

\* strings.HasPrefix
HasPrefix(s, prefix) ==
    /\ Len(s) >= Len(prefix)
    /\ SubSeq(s, 1, Len(prefix)) = prefix

\* strings.Contains
Contains(s, substr) ==
    \E i \in 1..(Len(s) - Len(substr) + 1) : SubSeq(s, i, i + Len(substr) - 1) = substr

isComplexFieldTypeSlices(fieldType) == HasPrefix(fieldType, <<"[", "]">>)

isComplexFieldType(fieldType) ==
    \/ HasPrefix(fieldType, <<"[", "]">>)
    \/ HasPrefix(fieldType, <<"m", "a", "p", "[">>)
    \/ Contains(fieldType, <<"j", "s", "o", "n", ".">>)

isUniqueLookupField(field) ==
    LET Flag(annotation) ==
            IF annotation = NilAnnotation THEN FALSE ELSE annotation.df.UniqueLookup
    IN  Flag(getDomainFieldAnnotation(field))

\* a gen.Type: its name, node.ID and node.Fields
Type(name, id, fields) == [Name |-> name, ID |-> id, Fields |-> fields]

\* var fields; for _, field := range list { if keep { fields = append(fields, field) } }
ForRange(list, Keep(_)) ==
    LET fields[i \in 0..Len(list)] ==
            IF i = 0 THEN <<>>
            ELSE IF Keep(list[i]) THEN Append(fields[i - 1], list[i]) ELSE fields[i - 1]
    IN  fields[Len(list)]

domainFieldsFront(node) ==
    LET fields[i \in 0..Len(node.Fields)] ==
            IF i = 0 THEN <<>>
            ELSE IF getDomainFieldAnnotation(node.Fields[i]) # NilAnnotation
                 THEN <<node.Fields[i]>> \o fields[i - 1]
                 ELSE fields[i - 1]
    IN  fields[Len(node.Fields)]

domainFields(node) ==
    ForRange(node.Fields, LAMBDA field : getDomainFieldAnnotation(field) # NilAnnotation)

createFields(node) ==
    ForRange(node.Fields, LAMBDA field :
        /\ getDomainFieldAnnotation(field) # NilAnnotation
        /\ hasDomainScope(field, ScopeCreate))

updateFields(node) ==
    ForRange(node.Fields, LAMBDA field :
        /\ getDomainFieldAnnotation(field) # NilAnnotation
        /\ hasDomainScope(field, ScopeUpdate))

responseFields(node) ==
    ForRange(node.Fields, LAMBDA field :
        /\ getDomainFieldAnnotation(field) # NilAnnotation
        /\ hasDomainScope(field, ScopeResponse))

queryFields(node) ==
    LET Keep(field, annotation) ==
            /\ annotation # NilAnnotation
            /\ (annotation.df.Searchable \/ hasDomainScope(field, ScopeQuery))
    IN  ForRange(node.Fields, LAMBDA field : Keep(field, getDomainFieldAnnotation(field)))

searchableFields(node) ==
    LET Keep(annotation) == annotation # NilAnnotation /\ annotation.df.Searchable
    IN  ForRange(node.Fields, LAMBDA field : Keep(getDomainFieldAnnotation(field)))

sortableFields(node) ==
    LET Keep(field, annotation) ==
            /\ annotation # NilAnnotation /\ annotation.df.Sortable
            /\ ~isComplexFieldType(TypeString(field.Type))
    IN  ForRange(node.Fields, LAMBDA field : Keep(field, getDomainFieldAnnotation(field)))

updateableFieldsScoped(node) ==
    ForRange(node.Fields, LAMBDA field :
        /\ field.Name # <<"i", "d">>
        /\ ~field.Immutable
        /\ hasDomainScope(field, ScopeUpdate))

updateableFields(node) ==
    ForRange(node.Fields, LAMBDA field :
        /\ field.Name # <<"i", "d">>
        /\ ~field.Immutable
        /\ getDomainFieldAnnotation(field) # NilAnnotation)

nonDefaultDomainFields(node) ==
    ForRange(domainFields(node), LAMBDA field : ~field.Default)

uniqueLookupFieldsScoped(node) ==
    ForRange(responseFields(node), LAMBDA field : isUniqueLookupField(field))

uniqueLookupFields(node) ==
    ForRange(domainFields(node), LAMBDA field : isUniqueLookupField(field))

rangeLookupFields(node) ==
    LET Keep(annotation) == annotation # NilAnnotation /\ annotation.df.RangeLookup
    IN  ForRange(domainFields(node), LAMBDA field : Keep(getDomainFieldAnnotation(field)))

----------------------------------------------------------------------------
(* Code generator: the predicate of a field *)

Newline == "\n"
Tab == "\t"

\* ASCII upper case of a character
Upper(ch) ==
    IF (\E i \in 66..91 : Ascii[i] = ch)
    THEN Ascii[(CHOOSE i \in 66..91 : Ascii[i] = ch) - 32]
    ELSE ch

\* strings.ToLower
ToLower(s) == [i \in 1..Len(s) |-> Lower(s[i])]

\* field.StructField(): the words of the name, each with a capital, without
\* the underscores between them; "id" is the acronym ID (the names of the
\* schemas hold no other acronym)
StructField(field) ==
    LET Letter(name, i) ==
            IF i = 1 \/ name[i - 1] = "_" THEN Upper(name[i]) ELSE name[i]
        pascal[i \in 0..Len(field.Name)] ==
            IF i = 0 THEN <<>>
            ELSE IF field.Name[i] = "_" THEN pascal[i - 1]
                 ELSE Append(pascal[i - 1], Letter(field.Name, i))
    IN  IF field.Name = <<"i", "d">> THEN <<"I", "D">> ELSE pascal[Len(field.Name)]

getEntityPackageName(node) == ToLower(node.Name)

fieldPredicate(field, node, indent, skipEmpty) ==
    LET Extra == IF skipEmpty THEN <<" ", "&", "&", " ", "v", " ", "!", "=", " ", Quote, Quote>> ELSE <<>>
        \* where(cast, goType)
        Where(pkg, name, cast) ==
            indent \o <<"i", "f", " ", "v", ",", " ", "o", "k", " ", ":", "=", " ", "v", "a", "l", "u", "e", ".", "(">> \o cast \o <<")", ";", " ", "o", "k", " ", "{", Newline>>
            \o indent \o <<Tab, "q", "u", "e", "r", "y", " ", "=", " ", "q", "u", "e", "r", "y", ".", "W", "h", "e", "r", "e", "(">> \o pkg \o <<".">> \o name \o <<"E", "Q", "(", "v", ")", ")", Newline>>
            \o indent \o <<"}">>
        Enum(pkg, name, enumType) ==
            indent \o <<"i", "f", " ", "v", ",", " ", "o", "k", " ", ":", "=", " ", "v", "a", "l", "u", "e", ".", "(">> \o enumType \o <<")", ";", " ", "o", "k", " ", "{", Newline>>
            \o indent \o <<Tab, "q", "u", "e", "r", "y", " ", "=", " ", "q", "u", "e", "r", "y", ".", "W", "h", "e", "r", "e", "(">> \o pkg \o <<".">> \o name \o <<"E", "Q", "(", "v", ")", ")", Newline>>
            \o indent \o <<"}", " ", "e", "l", "s", "e", " ", "i", "f", " ", "v", ",", " ", "o", "k", " ", ":", "=", " ", "v", "a", "l", "u", "e", ".", "(", "s", "t", "r", "i", "n", "g", ")", ";", " ", "o", "k">> \o Extra \o <<" ", "{", Newline>>
            \o indent \o <<Tab, "q", "u", "e", "r", "y", " ", "=", " ", "q", "u", "e", "r", "y", ".", "W", "h", "e", "r", "e", "(">> \o pkg \o <<".">> \o name \o <<"E", "Q", "(">>
            \o enumType \o <<"(", "v", ")", ")", ")", Newline>>
            \o indent \o <<"}">>
        Out(pkg, name, ft) ==
            CASE IsEnum(field) -> Enum(pkg, name, pkg \o <<".">> \o name)
              [] ~IsEnum(field) /\ ft = <<"s", "t", "r", "i", "n", "g">> ->
                     indent \o <<"i", "f", " ", "v", ",", " ", "o", "k", " ", ":", "=", " ", "v", "a", "l", "u", "e", ".", "(", "s", "t", "r", "i", "n", "g", ")", ";", " ", "o", "k">> \o Extra \o <<" ", "{", Newline>>
                     \o indent \o <<Tab, "q", "u", "e", "r", "y", " ", "=", " ", "q", "u", "e", "r", "y", ".", "W", "h", "e", "r", "e", "(">> \o pkg \o <<".">> \o name \o <<"E", "Q", "(", "v", ")", ")", Newline>>
                     \o indent \o <<"}">>
              [] ~IsEnum(field) /\ ft = <<"i", "n", "t">> ->
                     indent \o <<"i", "f", " ", "v", ",", " ", "o", "k", " ", ":", "=", " ", "v", "a", "l", "u", "e", ".", "(", "i", "n", "t", ")", ";", " ", "o", "k", " ", "{", Newline>>
                     \o indent \o <<Tab, "q", "u", "e", "r", "y", " ", "=", " ", "q", "u", "e", "r", "y", ".", "W", "h", "e", "r", "e", "(">> \o pkg \o <<".">> \o name \o <<"E", "Q", "(", "v", ")", ")", Newline>>
                     \o indent \o <<"}", " ", "e", "l", "s", "e", " ", "i", "f", " ", "v", ",", " ", "o", "k", " ", ":", "=", " ", "v", "a", "l", "u", "e", ".", "(", "i", "n", "t", "6", "4", ")", ";", " ", "o", "k", " ", "{", Newline>>
                     \o indent \o <<Tab, "q", "u", "e", "r", "y", " ", "=", " ", "q", "u", "e", "r", "y", ".", "W", "h", "e", "r", "e", "(">> \o pkg \o <<".">> \o name
                     \o <<"E", "Q", "(", "i", "n", "t", "(", "v", ")", ")", ")", Newline>>
                     \o indent \o <<"}">>
              [] ~IsEnum(field) /\ ft = <<"i", "n", "t", "3", "2">> ->
                     indent \o <<"i", "f", " ", "v", ",", " ", "o", "k", " ", ":", "=", " ", "v", "a", "l", "u", "e", ".", "(", "i", "n", "t", "3", "2", ")", ";", " ", "o", "k", " ", "{", Newline>>
                     \o indent \o <<Tab, "q", "u", "e", "r", "y", " ", "=", " ", "q", "u", "e", "r", "y", ".", "W", "h", "e", "r", "e", "(">> \o pkg \o <<".">> \o name \o <<"E", "Q", "(", "v", ")", ")", Newline>>
                     \o indent \o <<"}", " ", "e", "l", "s", "e", " ", "i", "f", " ", "v", ",", " ", "o", "k", " ", ":", "=", " ", "v", "a", "l", "u", "e", ".", "(", "i", "n", "t", "6", "4", ")", ";", " ", "o", "k", " ", "{", Newline>>
                     \o indent \o <<Tab, "q", "u", "e", "r", "y", " ", "=", " ", "q", "u", "e", "r", "y", ".", "W", "h", "e", "r", "e", "(">> \o pkg \o <<".">> \o name
                     \o <<"E", "Q", "(", "i", "n", "t", "3", "2", "(", "v", ")", ")", ")", Newline>>
                     \o indent \o <<"}">>
              [] ~IsEnum(field) /\ ft = <<"i", "n", "t", "6", "4">> -> Where(pkg, name, <<"i", "n", "t", "6", "4">>)
              [] ~IsEnum(field) /\ ft = <<"b", "o", "o", "l">> -> Where(pkg, name, <<"b", "o", "o", "l">>)
              [] ~IsEnum(field) /\ ft = <<"t", "i", "m", "e", ".", "T", "i", "m", "e">> -> Where(pkg, name, <<"t", "i", "m", "e", ".", "T", "i", "m", "e">>)
              [] OTHER -> indent \o <<"/", "/", " ", "u", "n", "s", "u", "p", "p", "o", "r", "t", "e", "d", " ", "f", "i", "e", "l", "d", " ", "t", "y", "p", "e", ":", " ">> \o ft
    IN  Out(getEntityPackageName(node), StructField(field), TypeString(field.Type))

\* searchMethod: the predicate inside Search and Count, empty values skipped
searchMethod(field, node) == fieldPredicate(field, node, <<Tab, Tab, Tab>>, TRUE)

\* findByMethod: the predicate inside FindBy
findByMethod(field, node) == fieldPredicate(field, node, <<Tab, Tab>>, FALSE)

generateSearchCondition(field, node) ==
    IF TypeString(field.Type) = <<"s", "t", "r", "i", "n", "g">>
    THEN <<Tab, Tab, "p", "r", "e", "d", "i", "c", "a", "t", "e", "s", " ", "=", " ", "a", "p", "p", "e", "n", "d", "(", "p", "r", "e", "d", "i", "c", "a", "t", "e", "s", ",", " ">> \o getEntityPackageName(node) \o <<".">>
         \o StructField(field) \o <<"C", "o", "n", "t", "a", "i", "n", "s", "(", "r", "e", "q", ".", "Q", "u", "e", "r", "y", ")", ")">>
    ELSE <<>>

generateIdOperationInt(node, operation, idVar) ==
    LET Convert == <<"f", "u", "n", "c", "(", ")", " ", "i", "n", "t", "6", "4", " ", "{", Newline, Tab, Tab, "i", "f", " ", "i", ",", " ", "e", "r", "r", " ", ":", "=", " ">> \o idVar
                   \o <<".", "I", "n", "t", "6", "4", "(", ")", ";", " ", "e", "r", "r", " ", "=", "=", " ", "n", "i", "l", " ", "{", Newline, Tab, Tab, Tab, "r", "e", "t", "u", "r", "n", " ", "i", Newline, Tab, Tab, "}", Newline, Tab, Tab, "r", "e", "t", "u", "r", "n", " ", "0", Newline, Tab, "}", "(", ")">>
        Out(idType, entityName, packageName) ==
            CASE operation = <<"g", "e", "t">> ->
                     IF idType = <<"s", "t", "r", "i", "n", "g">>
                     THEN <<"e", "n", "t", "i", "t", "y", ",", " ", "e", "r", "r", " ", ":", "=", " ", "r", ".", "c", "l", "i", "e", "n", "t", ".">> \o entityName \o <<".", "G", "e", "t", "(", "c", "t", "x", ",", " ">>
                          \o idVar \o <<".", "S", "t", "r", "i", "n", "g", "(", ")", ")">>
                     ELSE IF idType = <<"i", "n", "t">>
                     THEN <<"e", "n", "t", "i", "t", "y", ",", " ", "e", "r", "r", " ", ":", "=", " ", "r", ".", "c", "l", "i", "e", "n", "t", ".">> \o entityName \o <<".", "G", "e", "t", "(", "c", "t", "x", ",", " ">>
                          \o Convert \o <<")">>
                     ELSE <<"e", "n", "t", "i", "t", "y", ",", " ", "e", "r", "r", " ", ":", "=", " ", "r", ".", "c", "l", "i", "e", "n", "t", ".">> \o entityName \o <<".", "G", "e", "t", "(", "c", "t", "x", ",", " ">>
                          \o idVar \o <<")">>
              [] operation = <<"u", "p", "d", "a", "t", "e", "O", "n", "e", "I", "D">> ->
                     <<"e", "n", "t", "i", "t", "y", ",", " ", "e", "r", "r", " ", ":", "=", " ", "r", ".", "c", "l", "i", "e", "n", "t", ".">> \o entityName \o <<".", "U", "p", "d", "a", "t", "e", "O", "n", "e", "I", "D", "(", "m", "o", "d", "e", "l", ".">>
                     \o StructField(node.ID) \o <<")", ".">>
              [] operation = <<"d", "e", "l", "e", "t", "e">> ->
                     IF idType = <<"s", "t", "r", "i", "n", "g">>
                     THEN <<"r", "e", "t", "u", "r", "n", " ", "r", ".", "c", "l", "i", "e", "n", "t", ".">> \o entityName \o <<".", "D", "e", "l", "e", "t", "e", "O", "n", "e", "I", "D", "(">>
                          \o idVar \o <<".", "S", "t", "r", "i", "n", "g", "(", ")", ")", ".", "E", "x", "e", "c", "(", "c", "t", "x", ")">>
                     ELSE IF idType = <<"i", "n", "t">>
                     THEN <<"r", "e", "t", "u", "r", "n", " ", "r", ".", "c", "l", "i", "e", "n", "t", ".">> \o entityName \o <<".", "D", "e", "l", "e", "t", "e", "O", "n", "e", "I", "D", "(">>
                          \o Convert \o <<")", ".", "E", "x", "e", "c", "(", "c", "t", "x", ")">>
                     ELSE <<"r", "e", "t", "u", "r", "n", " ", "r", ".", "c", "l", "i", "e", "n", "t", ".">> \o entityName \o <<".", "D", "e", "l", "e", "t", "e", "O", "n", "e", "I", "D", "(">>
                          \o idVar \o <<")", ".", "E", "x", "e", "c", "(", "c", "t", "x", ")">>
              [] operation = <<"e", "x", "i", "s", "t", "s">> ->
                     IF idType = <<"s", "t", "r", "i", "n", "g">>
                     THEN <<"c", "o", "u", "n", "t", ",", " ", "e", "r", "r", " ", ":", "=", " ", "r", ".", "c", "l", "i", "e", "n", "t", ".">> \o entityName \o <<".", "Q", "u", "e", "r", "y", "(", ")", ".", "W", "h", "e", "r", "e", "(">>
                          \o packageName \o <<".", "I", "D", "E", "Q", "(">> \o idVar \o <<".", "S", "t", "r", "i", "n", "g", "(", ")", ")", ")", ".", "C", "o", "u", "n", "t", "(", "c", "t", "x", ")">>
                     ELSE IF idType = <<"i", "n", "t">>
                     THEN <<"c", "o", "u", "n", "t", ",", " ", "e", "r", "r", " ", ":", "=", " ", "r", ".", "c", "l", "i", "e", "n", "t", ".">> \o entityName \o <<".", "Q", "u", "e", "r", "y", "(", ")", ".", "W", "h", "e", "r", "e", "(">>
                          \o packageName \o <<".", "I", "D", "E", "Q", "(">> \o Convert \o <<")", ")", ".", "C", "o", "u", "n", "t", "(", "c", "t", "x", ")">>
                     ELSE <<"c", "o", "u", "n", "t", ",", " ", "e", "r", "r", " ", ":", "=", " ", "r", ".", "c", "l", "i", "e", "n", "t", ".">> \o entityName \o <<".", "Q", "u", "e", "r", "y", "(", ")", ".", "W", "h", "e", "r", "e", "(">>
                          \o packageName \o <<".", "I", "D", "E", "Q", "(">> \o idVar \o <<")", ")", ".", "C", "o", "u", "n", "t", "(", "c", "t", "x", ")">>
              [] operation = <<"b", "a", "t", "c", "h", "D", "e", "l", "e", "t", "e">> ->
                     IF idType = <<"s", "t", "r", "i", "n", "g">>
                     THEN <<"s", "t", "r", "i", "n", "g", "I", "d", "s", " ", ":", "=", " ", "m", "a", "k", "e", "(", "[", "]", "s", "t", "r", "i", "n", "g", ",", " ", "l", "e", "n", "(", "i", "d", "s", ")", ")", Newline, Tab, "f", "o", "r", " ", "i", ",", " ", "i", "d", " ", ":", "=", " ", "r", "a", "n", "g", "e", " ", "i", "d", "s", " ", "{", Newline, Tab, Tab, "s", "t", "r", "i", "n", "g", "I", "d", "s", "[", "i", "]", " ", "=", " ", "i", "d", ".", "S", "t", "r", "i", "n", "g", "(", ")", Newline, Tab, "}", Newline, Tab, "_", ",", " ", "e", "r", "r", " ", ":", "=", " ", "r", ".", "c", "l", "i", "e", "n", "t", ".">>
                          \o entityName \o <<".", "D", "e", "l", "e", "t", "e", "(", ")", ".", "W", "h", "e", "r", "e", "(">> \o packageName
                          \o <<".", "I", "D", "I", "n", "(", "s", "t", "r", "i", "n", "g", "I", "d", "s", ".", ".", ".", ")", ")", ".", "E", "x", "e", "c", "(", "c", "t", "x", ")">>
                     ELSE IF idType = <<"i", "n", "t">>
                     THEN <<"i", "n", "t", "6", "4", "I", "d", "s", " ", ":", "=", " ", "m", "a", "k", "e", "(", "[", "]", "i", "n", "t", "6", "4", ",", " ", "l", "e", "n", "(", "i", "d", "s", ")", ")", Newline, Tab, "f", "o", "r", " ", "i", ",", " ", "i", "d", " ", ":", "=", " ", "r", "a", "n", "g", "e", " ", "i", "d", "s", " ", "{", Newline, Tab, Tab, "i", "f", " ", "i", "n", "t", "I", "d", ",", " ", "e", "r", "r", " ", ":", "=", " ", "i", "d", ".", "I", "n", "t", "6", "4", "(", ")", ";", " ", "e", "r", "r", " ", "=", "=", " ", "n", "i", "l", " ", "{", Newline, Tab, Tab, Tab, "i", "n", "t", "6", "4", "I", "d", "s", "[", "i", "]", " ", "=", " ", "i", "n", "t", "I", "d", Newline, Tab, Tab, "}", Newline, Tab, "}", Newline, Tab, "_", ",", " ", "e", "r", "r", " ", ":", "=", " ", "r", ".", "c", "l", "i", "e", "n", "t", ".">>
                          \o entityName \o <<".", "D", "e", "l", "e", "t", "e", "(", ")", ".", "W", "h", "e", "r", "e", "(">> \o packageName
                          \o <<".", "I", "D", "I", "n", "(", "i", "n", "t", "6", "4", "I", "d", "s", ".", ".", ".", ")", ")", ".", "E", "x", "e", "c", "(", "c", "t", "x", ")">>
                     ELSE <<"_", ",", " ", "e", "r", "r", " ", ":", "=", " ", "r", ".", "c", "l", "i", "e", "n", "t", ".">> \o entityName \o <<".", "D", "e", "l", "e", "t", "e", "(", ")", ".", "W", "h", "e", "r", "e", "(">>
                          \o packageName \o <<".", "I", "D", "I", "n", "(", "i", "d", "s", ".", ".", ".", ")", ")", ".", "E", "x", "e", "c", "(", "c", "t", "x", ")">>
              [] OTHER -> <<"/", "/", " ", "U", "n", "k", "n", "o", "w", "n", " ", "o", "p", "e", "r", "a", "t", "i", "o", "n", ":", " ">> \o operation
    IN  Out(TypeString(node.ID.Type), node.Name, getEntityPackageName(node))

generateIdOperation(node, operation, idVar) ==
    LET Convert == <<"f", "u", "n", "c", "(", ")", " ", "i", "n", "t", "6", "4", " ", "{", Newline, Tab, Tab, "i", "f", " ", "i", ",", " ", "e", "r", "r", " ", ":", "=", " ">> \o idVar
                   \o <<".", "I", "n", "t", "6", "4", "(", ")", ";", " ", "e", "r", "r", " ", "=", "=", " ", "n", "i", "l", " ", "{", Newline, Tab, Tab, Tab, "r", "e", "t", "u", "r", "n", " ", "i", Newline, Tab, Tab, "}", Newline, Tab, Tab, "r", "e", "t", "u", "r", "n", " ", "0", Newline, Tab, "}", "(", ")">>
        Out(idType, entityName, packageName) ==
            CASE operation = <<"g", "e", "t">> ->
                     IF idType = <<"s", "t", "r", "i", "n", "g">>
                     THEN <<"e", "n", "t", "i", "t", "y", ",", " ", "e", "r", "r", " ", ":", "=", " ", "r", ".", "c", "l", "i", "e", "n", "t", ".">> \o entityName \o <<".", "G", "e", "t", "(", "c", "t", "x", ",", " ">>
                          \o idVar \o <<".", "S", "t", "r", "i", "n", "g", "(", ")", ")">>
                     ELSE IF idType = <<"i", "n", "t", "6", "4">>
                     THEN <<"e", "n", "t", "i", "t", "y", ",", " ", "e", "r", "r", " ", ":", "=", " ", "r", ".", "c", "l", "i", "e", "n", "t", ".">> \o entityName \o <<".", "G", "e", "t", "(", "c", "t", "x", ",", " ">>
                          \o Convert \o <<")">>
                     ELSE <<"e", "n", "t", "i", "t", "y", ",", " ", "e", "r", "r", " ", ":", "=", " ", "r", ".", "c", "l", "i", "e", "n", "t", ".">> \o entityName \o <<".", "G", "e", "t", "(", "c", "t", "x", ",", " ">>
                          \o idVar \o <<")">>
              [] operation = <<"u", "p", "d", "a", "t", "e", "O", "n", "e", "I", "D">> ->
                     <<"e", "n", "t", "i", "t", "y", ",", " ", "e", "r", "r", " ", ":", "=", " ", "r", ".", "c", "l", "i", "e", "n", "t", ".">> \o entityName \o <<".", "U", "p", "d", "a", "t", "e", "O", "n", "e", "I", "D", "(", "m", "o", "d", "e", "l", ".">>
                     \o StructField(node.ID) \o <<")", ".">>
              [] operation = <<"d", "e", "l", "e", "t", "e">> ->
                     IF idType = <<"s", "t", "r", "i", "n", "g">>
                     THEN <<"r", "e", "t", "u", "r", "n", " ", "r", ".", "c", "l", "i", "e", "n", "t", ".">> \o entityName \o <<".", "D", "e", "l", "e", "t", "e", "O", "n", "e", "I", "D", "(">>
                          \o idVar \o <<".", "S", "t", "r", "i", "n", "g", "(", ")", ")", ".", "E", "x", "e", "c", "(", "c", "t", "x", ")">>
                     ELSE IF idType = <<"i", "n", "t", "6", "4">>
                     THEN <<"r", "e", "t", "u", "r", "n", " ", "r", ".", "c", "l", "i", "e", "n", "t", ".">> \o entityName \o <<".", "D", "e", "l", "e", "t", "e", "O", "n", "e", "I", "D", "(">>
                          \o Convert \o <<")", ".", "E", "x", "e", "c", "(", "c", "t", "x", ")">>
                     ELSE <<"r", "e", "t", "u", "r", "n", " ", "r", ".", "c", "l", "i", "e", "n", "t", ".">> \o entityName \o <<".", "D", "e", "l", "e", "t", "e", "O", "n", "e", "I", "D", "(">>
                          \o idVar \o <<")", ".", "E", "x", "e", "c", "(", "c", "t", "x", ")">>
              [] operation = <<"e", "x", "i", "s", "t", "s">> ->
                     IF idType = <<"s", "t", "r", "i", "n", "g">>
                     THEN <<"c", "o", "u", "n", "t", ",", " ", "e", "r", "r", " ", ":", "=", " ", "r", ".", "c", "l", "i", "e", "n", "t", ".">> \o entityName \o <<".", "Q", "u", "e", "r", "y", "(", ")", ".", "W", "h", "e", "r", "e", "(">>
                          \o packageName \o <<".", "I", "D", "E", "Q", "(">> \o idVar \o <<".", "S", "t", "r", "i", "n", "g", "(", ")", ")", ")", ".", "C", "o", "u", "n", "t", "(", "c", "t", "x", ")">>
                     ELSE IF idType = <<"i", "n", "t", "6", "4">>
                     THEN <<"c", "o", "u", "n", "t", ",", " ", "e", "r", "r", " ", ":", "=", " ", "r", ".", "c", "l", "i", "e", "n", "t", ".">> \o entityName \o <<".", "Q", "u", "e", "r", "y", "(", ")", ".", "W", "h", "e", "r", "e", "(">>
                          \o packageName \o <<".", "I", "D", "E", "Q", "(">> \o Convert \o <<")", ")", ".", "C", "o", "u", "n", "t", "(", "c", "t", "x", ")">>
                     ELSE <<"c", "o", "u", "n", "t", ",", " ", "e", "r", "r", " ", ":", "=", " ", "r", ".", "c", "l", "i", "e", "n", "t", ".">> \o entityName \o <<".", "Q", "u", "e", "r", "y", "(", ")", ".", "W", "h", "e", "r", "e", "(">>
                          \o packageName \o <<".", "I", "D", "E", "Q", "(">> \o idVar \o <<")", ")", ".", "C", "o", "u", "n", "t", "(", "c", "t", "x", ")">>
              [] operation = <<"b", "a", "t", "c", "h", "D", "e", "l", "e", "t", "e">> ->
                     IF idType = <<"s", "t", "r", "i", "n", "g">>
                     THEN <<"s", "t", "r", "i", "n", "g", "I", "d", "s", " ", ":", "=", " ", "m", "a", "k", "e", "(", "[", "]", "s", "t", "r", "i", "n", "g", ",", " ", "l", "e", "n", "(", "i", "d", "s", ")", ")", Newline, Tab, "f", "o", "r", " ", "i", ",", " ", "i", "d", " ", ":", "=", " ", "r", "a", "n", "g", "e", " ", "i", "d", "s", " ", "{", Newline, Tab, Tab, "s", "t", "r", "i", "n", "g", "I", "d", "s", "[", "i", "]", " ", "=", " ", "i", "d", ".", "S", "t", "r", "i", "n", "g", "(", ")", Newline, Tab, "}", Newline, Tab, "_", ",", " ", "e", "r", "r", " ", ":", "=", " ", "r", ".", "c", "l", "i", "e", "n", "t", ".">>
                          \o entityName \o <<".", "D", "e", "l", "e", "t", "e", "(", ")", ".", "W", "h", "e", "r", "e", "(">> \o packageName
                          \o <<".", "I", "D", "I", "n", "(", "s", "t", "r", "i", "n", "g", "I", "d", "s", ".", ".", ".", ")", ")", ".", "E", "x", "e", "c", "(", "c", "t", "x", ")">>
                     ELSE IF idType = <<"i", "n", "t", "6", "4">>
                     THEN <<"i", "n", "t", "6", "4", "I", "d", "s", " ", ":", "=", " ", "m", "a", "k", "e", "(", "[", "]", "i", "n", "t", "6", "4", ",", " ", "l", "e", "n", "(", "i", "d", "s", ")", ")", Newline, Tab, "f", "o", "r", " ", "i", ",", " ", "i", "d", " ", ":", "=", " ", "r", "a", "n", "g", "e", " ", "i", "d", "s", " ", "{", Newline, Tab, Tab, "i", "f", " ", "i", "n", "t", "I", "d", ",", " ", "e", "r", "r", " ", ":", "=", " ", "i", "d", ".", "I", "n", "t", "6", "4", "(", ")", ";", " ", "e", "r", "r", " ", "=", "=", " ", "n", "i", "l", " ", "{", Newline, Tab, Tab, Tab, "i", "n", "t", "6", "4", "I", "d", "s", "[", "i", "]", " ", "=", " ", "i", "n", "t", "I", "d", Newline, Tab, Tab, "}", Newline, Tab, "}", Newline, Tab, "_", ",", " ", "e", "r", "r", " ", ":", "=", " ", "r", ".", "c", "l", "i", "e", "n", "t", ".">>
                          \o entityName \o <<".", "D", "e", "l", "e", "t", "e", "(", ")", ".", "W", "h", "e", "r", "e", "(">> \o packageName
                          \o <<".", "I", "D", "I", "n", "(", "i", "n", "t", "6", "4", "I", "d", "s", ".", ".", ".", ")", ")", ".", "E", "x", "e", "c", "(", "c", "t", "x", ")">>
                     ELSE <<"_", ",", " ", "e", "r", "r", " ", ":", "=", " ", "r", ".", "c", "l", "i", "e", "n", "t", ".">> \o entityName \o <<".", "D", "e", "l", "e", "t", "e", "(", ")", ".", "W", "h", "e", "r", "e", "(">>
                          \o packageName \o <<".", "I", "D", "I", "n", "(", "i", "d", "s", ".", ".", ".", ")", ")", ".", "E", "x", "e", "c", "(", "c", "t", "x", ")">>
              [] OTHER -> <<"/", "/", " ", "U", "n", "k", "n", "o", "w", "n", " ", "o", "p", "e", "r", "a", "t", "i", "o", "n", ":", " ">> \o operation
    IN  Out(TypeString(node.ID.Type), node.Name, getEntityPackageName(node))

specificMethodsDeclared(node) ==
    LET Both(field) ==
            (IF \E k \in 1..Len(uniqueLookupFields(node)) : uniqueLookupFields(node)[k] = field
             THEN <<<<"F", "i", "n", "d", "B", "y">> \o StructField(field) \o <<"(", "c", "t", "x", " ", "c", "o", "n", "t", "e", "x", "t", ".", "C", "o", "n", "t", "e", "x", "t", ",", " ">>
                    \o ToLower(StructField(field)) \o <<" ">> \o TypeString(field.Type)
                    \o <<")", " ", "(", "*">> \o node.Name \o <<"D", "o", "m", "a", "i", "n", "M", "o", "d", "e", "l", ",", " ", "e", "r", "r", "o", "r", ")">>>>
             ELSE <<>>)
            \o (IF \E k \in 1..Len(rangeLookupFields(node)) : rangeLookupFields(node)[k] = field
                THEN <<<<"F", "i", "n", "d", "B", "y">> \o StructField(field)
                       \o <<"R", "a", "n", "g", "e", "(", "c", "t", "x", " ", "c", "o", "n", "t", "e", "x", "t", ".", "C", "o", "n", "t", "e", "x", "t", ",", " ", "s", "t", "a", "r", "t", ",", " ", "e", "n", "d", " ", "t", "i", "m", "e", ".", "T", "i", "m", "e", ")", " ", "(", "[", "]", "*">>
                       \o node.Name \o <<"D", "o", "m", "a", "i", "n", "M", "o", "d", "e", "l", ",", " ", "e", "r", "r", "o", "r", ")">>>>
                ELSE <<>>)
        methods[i \in 0..Len(node.Fields)] ==
            IF i = 0 THEN <<>> ELSE methods[i - 1] \o Both(node.Fields[i])
    IN  methods[Len(node.Fields)]

specificMethods(node) ==
    LET Lookup(fieldName, type) ==
            <<"F", "i", "n", "d", "B", "y">> \o fieldName \o <<"(", "c", "t", "x", " ", "c", "o", "n", "t", "e", "x", "t", ".", "C", "o", "n", "t", "e", "x", "t", ",", " ">> \o ToLower(fieldName)
            \o <<" ">> \o type \o <<")", " ", "(", "*">> \o node.Name \o <<"D", "o", "m", "a", "i", "n", "M", "o", "d", "e", "l", ",", " ", "e", "r", "r", "o", "r", ")">>
        Range(fieldName) ==
            <<"F", "i", "n", "d", "B", "y">> \o fieldName
            \o <<"R", "a", "n", "g", "e", "(", "c", "t", "x", " ", "c", "o", "n", "t", "e", "x", "t", ".", "C", "o", "n", "t", "e", "x", "t", ",", " ", "s", "t", "a", "r", "t", ",", " ", "e", "n", "d", " ", "t", "i", "m", "e", ".", "T", "i", "m", "e", ")", " ", "(", "[", "]", "*">>
            \o node.Name \o <<"D", "o", "m", "a", "i", "n", "M", "o", "d", "e", "l", ",", " ", "e", "r", "r", "o", "r", ")">>
        \* if !generated[methodKey] { methods = append(methods, methodName); generated[methodKey] = true }
        Add(st, methodKey, methodName) ==
            IF methodKey \in st.generated THEN st
            ELSE [methods |-> Append(st.methods, methodName),
                  generated |-> st.generated \cup {methodKey}]
        Unique(list) ==
            LET st[i \in 0..Len(list)] ==
                    IF i = 0 THEN [methods |-> <<>>, generated |-> {}]
                    ELSE Add(st[i - 1], <<"F", "i", "n", "d", "B", "y">> \o StructField(list[i]),
                             Lookup(StructField(list[i]), TypeString(list[i].Type)))
            IN  st[Len(list)]
        Ranges(first, list) ==
            LET st[i \in 0..Len(list)] ==
                    IF i = 0 THEN first
                    ELSE Add(st[i - 1], <<"F", "i", "n", "d", "B", "y">> \o StructField(list[i]) \o <<"R", "a", "n", "g", "e">>,
                             Range(StructField(list[i])))
            IN  st[Len(list)]
    IN  Ranges(Unique(uniqueLookupFields(node)), rangeLookupFields(node)).methods

----------------------------------------------------------------------------
(* Code generator: inputs and steps *)

FieldScopes == {ScopeCreate, ScopeUpdate, ScopeQuery, ScopeResponse}

ScopeLists ==
    {NilScopes, ScopeList(<<>>), ScopeList(<<ScopeCreate>>),
     ScopeList(<<ScopeCreate, ScopeUpdate>>), ScopeList(<<ScopeUpdate, ScopeCreate>>),
     ScopeList(<<ScopeQuery, ScopeResponse>>), ScopeList(<<ScopeCreate, ScopeCreate>>),
     ScopeList(AllFieldScopes)}

RequiredMaps ==
    {NilRequired, RequiredMap({}), RequiredMap({<<ScopeCreate, TRUE>>}),
     RequiredMap({<<ScopeCreate, FALSE>>}),
     RequiredMap({<<ScopeCreate, FALSE>>, <<ScopeUpdate, TRUE>>}),
     RequiredMap({<<ScopeQuery, TRUE>>})}

\* the capability flags: none, all, or one of them
Capabilities ==
    LET none == [Sensitive |-> FALSE, Searchable |-> FALSE, Sortable |-> FALSE,
                 Filterable |-> FALSE, UniqueLookup |-> FALSE, RangeLookup |-> FALSE]
    IN  {none, [f \in DOMAIN none |-> TRUE]}
        \cup {[none EXCEPT ![f] = TRUE] : f \in DOMAIN none}

\* the annotations a schema field is given
DomainFields ==
    {[Scopes |-> s, Required |-> r,
      Description |-> IF c.Sensitive THEN "secret" ELSE "",
      Sensitive |-> c.Sensitive, Searchable |-> c.Searchable, Sortable |-> c.Sortable,
      Filterable |-> c.Filterable, UniqueLookup |-> c.UniqueLookup,
      RangeLookup |-> c.RangeLookup] :
        s \in ScopeLists, r \in RequiredMaps, c \in Capabilities}

\* the map[string]interface{} an annotation becomes when the schema is
\* serialized and loaded again: the json tags of DomainField, each with
\* omitempty
MapForm(df) ==
    {<<"scopes", GenericList([i \in 1..Len(df.Scopes.list) |-> GenericString(df.Scopes.list[i])])>> :
        x \in IF Len(df.Scopes.list) > 0 THEN {1} ELSE {}}
    \cup {<<"required", GenericMap({<<e[1], GenericBool(e[2])>> : e \in df.Required.m})>> :
             x \in IF df.Required.m # {} THEN {1} ELSE {}}
    \cup {<<"description", GenericString(df.Description)>> :
             x \in IF df.Description # "" THEN {1} ELSE {}}
    \cup {<<"sensitive", GenericBool(TRUE)>> : x \in IF df.Sensitive THEN {1} ELSE {}}
    \cup {<<"searchable", GenericBool(TRUE)>> : x \in IF df.Searchable THEN {1} ELSE {}}
    \cup {<<"sortable", GenericBool(TRUE)>> : x \in IF df.Sortable THEN {1} ELSE {}}
    \cup {<<"filterable", GenericBool(TRUE)>> : x \in IF df.Filterable THEN {1} ELSE {}}
    \cup {<<"unique_lookup", GenericBool(TRUE)>> : x \in IF df.UniqueLookup THEN {1} ELSE {}}
    \cup {<<"range_lookup", GenericBool(TRUE)>> : x \in IF df.RangeLookup THEN {1} ELSE {}}

GenericScopes(list) == GenericList([i \in 1..Len(list) |-> GenericString(list[i])])

\* maps in which a known key holds a value of the wrong type
MalformedMaps ==
    {{<<"scopes", GenericNumber(12345)>>},
     {<<"scopes", GenericString(ScopeCreate)>>},
     {<<"scopes", GenericList(<<GenericString(ScopeCreate), GenericNumber(5)>>)>>,
      <<"searchable", GenericBool(TRUE)>>},
     {<<"required", GenericString(ScopeCreate)>>, <<"scopes", GenericScopes(<<ScopeCreate>>)>>},
     {<<"required", GenericMap({<<ScopeCreate, GenericString("yes")>>})>>,
      <<"scopes", GenericScopes(<<ScopeCreate>>)>>},
     {<<"searchable", GenericString("true")>>, <<"scopes", GenericScopes(AllFieldScopes)>>},
     {<<"sortable", GenericNumber(1)>>, <<"unique_lookup", GenericBool(TRUE)>>},
     {<<"description", GenericNumber(1)>>, <<"range_lookup", GenericBool(TRUE)>>}}

\* maps json.Marshal rejects
UnsupportedMaps ==
    {{<<"extra", GenericUnsupported>>, <<"scopes", GenericScopes(<<ScopeCreate>>)>>},
     {<<"extra", GenericList(<<GenericUnsupported>>)>>, <<"searchable", GenericBool(TRUE)>>}}

\* well-typed maps no annotation serializes to: the empty map, an unknown
\* key, a key in another case, nulls, explicit false
OtherMaps ==
    {{},
     {<<"extra", GenericNumber(1)>>, <<"scopes", GenericScopes(<<ScopeUpdate>>)>>},
     {<<"Scopes", GenericScopes(<<ScopeUpdate>>)>>},
     {<<"Scopes", GenericScopes(<<ScopeUpdate>>)>>, <<"scopes", GenericScopes(<<ScopeCreate>>)>>},
     {<<"scopes", GenericNil>>, <<"searchable", GenericBool(TRUE)>>},
     {<<"scopes", GenericList(<<GenericString(ScopeCreate), GenericNil>>)>>},
     {<<"scopes", GenericList(<<>>)>>, <<"required", GenericMap({})>>},
     {<<"required", GenericMap({<<ScopeCreate, GenericNil>>, <<ScopeUpdate, GenericBool(TRUE)>>})>>},
     {<<"required", GenericNil>>, <<"sortable", GenericBool(FALSE)>>,
      <<"sensitive", GenericNil>>, <<"description", GenericNil>>}}

\* the annotation stores of the fields
AnnotationStores ==
    {NilAnnotations, OtherAnnotations, IntAnnotations}
    \cup {DirectAnnotations(df) : df \in DomainFields}
    \cup {ValueAnnotations(df) : df \in DomainFields}
    \cup {MapAnnotations(MapForm(df)) : df \in DomainFields}
    \cup {MapAnnotations(m) : m \in MalformedMaps \cup UnsupportedMaps \cup OtherMaps}

\* a text field "name" with the annotation store
newStringField(annotations) ==
    Field(<<"n", "a", "m", "e">>, TypeInfo("TypeString", StringIdent), FALSE, FALSE, annotations)

AnnotatedFields == {newStringField(a) : a \in AnnotationStores}

\* the fields of the schemas: annotated and not, in both forms of the
\* annotation, of simple and of composite types
SchemaFields ==
    {Field(<<"i", "d">>, TypeInfo("TypeString", StringIdent), FALSE, FALSE,
           DirectAnnotations(DefaultField)),
     Field(<<"i", "d">>, TypeInfo("TypeInt64", Int64Ident), FALSE, FALSE, NilAnnotations),
     Field(<<"n", "a", "m", "e">>, TypeInfo("TypeString", StringIdent), FALSE, FALSE,
           DirectAnnotations(DefaultField)),
     Field(<<"n", "a", "m", "e">>, TypeInfo("TypeString", StringIdent), FALSE, FALSE,
           DirectAnnotations(AsRangeLookup(AsUniqueLookup(AsSortable(AsSearchable(NewDomainField)))))),
     Field(<<"n", "a", "m", "e">>, TypeInfo("TypeString", StringIdent), TRUE, FALSE,
           MapAnnotations(MapForm(DomainFieldWithScopes(<<ScopeCreate, ScopeResponse>>)))),
     Field(<<"e", "m", "a", "i", "l">>, TypeInfo("TypeString", StringIdent), FALSE, FALSE,
           MapAnnotations(MapForm(AsUniqueLookup(NewDomainField)))),
     Field(<<"e", "m", "a", "i", "l">>, TypeInfo("TypeString", StringIdent), FALSE, FALSE,
           MapAnnotations({<<"scopes", GenericNumber(12345)>>})),
     Field(<<"t", "a", "g", "s">>, TypeInfo("TypeJSON", StringsIdent), FALSE, FALSE,
           DirectAnnotations(DefaultField)),
     Field(<<"t", "a", "g", "s">>, TypeInfo("TypeJSON", NoIdent), FALSE, TRUE,
           DirectAnnotations(AsSortable(DomainFieldWithScopes(<<ScopeQuery>>)))),
     Field(<<"t", "a", "g", "s">>, TypeInfo("TypeJSON", URLIdent), FALSE, FALSE,
           DirectAnnotations(AsSortable(DomainFieldWithScopes(<<ScopeResponse>>)))),
     Field(<<"c", "r", "e", "a", "t", "e", "d", "_", "a", "t">>, TypeInfo("TypeTime", TimeIdent), TRUE, TRUE,
           DirectAnnotations(AsRangeLookup(OutputOnlyField))),
     Field(<<"m", "e", "t", "a">>, TypeInfo("TypeJSON", MapIdent), FALSE, FALSE,
           DirectAnnotations(AsSortable(DomainFieldWithScopes(<<ScopeUpdate>>))))}

\* the field lists of a schema: each name is declared once
FieldLists ==
    {list \in UNION {[1..n -> SchemaFields] : n \in 0..MaxFields} :
        \A i, j \in 1..Len(list) : i # j => list[i].Name # list[j].Name}

\* newTestType(name, fields...): the ID is an int64 field "id"
newTestType(name, fields) ==
    Type(name, Field(<<"i", "d">>, TypeInfo("TypeInt64", Int64Ident), FALSE, FALSE, NilAnnotations),
         fields)

Nodes == {newTestType(<<"U", "s", "e", "r">>, list) : list \in FieldLists}

\* the fields a predicate is generated for: one of each kind, with the Go
\* type the schema gives it or with the type of its kind
PredicateFields ==
    {Field(<<"n", "a", "m", "e">>, TypeInfo("TypeString", StringIdent), FALSE, FALSE, NilAnnotations),
     Field(<<"n", "a", "m", "e">>, TypeInfo("TypeString", NoIdent), FALSE, FALSE, NilAnnotations),
     Field(<<"a", "g", "e">>, TypeInfo("TypeInt", IntIdent), FALSE, FALSE, NilAnnotations),
     Field(<<"p", "r", "i", "o", "r", "i", "t", "y">>, TypeInfo("TypeInt32", Int32Ident), FALSE, FALSE, NilAnnotations),
     Field(<<"c", "o", "u", "n", "t">>, TypeInfo("TypeInt64", Int64Ident), FALSE, FALSE, NilAnnotations),
     Field(<<"a", "c", "t", "i", "v", "e">>, TypeInfo("TypeBool", BoolIdent), FALSE, FALSE, NilAnnotations),
     Field(<<"c", "r", "e", "a", "t", "e", "d", "_", "a", "t">>, TypeInfo("TypeTime", TimeIdent), FALSE, FALSE, NilAnnotations),
     Field(<<"s", "t", "a", "t", "u", "s">>, TypeInfo("TypeEnum", StringIdent), FALSE, FALSE, NilAnnotations),
     Field(<<"s", "t", "a", "t", "u", "s">>, TypeInfo("TypeEnum", NoIdent), FALSE, FALSE, NilAnnotations),
     Field(<<"s", "c", "o", "r", "e">>, TypeInfo("TypeFloat64", Float64Ident), FALSE, FALSE, NilAnnotations),
     Field(<<"d", "a", "t", "a">>, TypeInfo("TypeJSON", RawMessageIdent), FALSE, FALSE, NilAnnotations),
     Field(<<"d", "a", "t", "a">>, TypeInfo("TypeBytes", NoIdent), FALSE, FALSE, NilAnnotations),
     Field(<<"t", "a", "g", "s">>, TypeInfo("TypeJSON", StringsIdent), FALSE, FALSE, NilAnnotations),
     Field(<<"m", "e", "t", "a">>, TypeInfo("TypeJSON", MapIdent), FALSE, FALSE, NilAnnotations),
     Field(<<"h", "o", "m", "e", "_", "p", "a", "g", "e">>, TypeInfo("TypeJSON", URLIdent), FALSE, FALSE, NilAnnotations)}

PredicateNodes == {newTestType(<<"U", "s", "e", "r">>, <<>>), newTestType(<<"O", "r", "d", "e", "r">>, <<>>)}

\* the indentation of the generated block
Indents == {<<Tab>>, <<Tab, Tab>>, <<Tab, Tab, Tab>>}

\* the ID fields of the schemas: string, int64, int and UUID
IDFields ==
    {Field(<<"i", "d">>, TypeInfo("TypeString", StringIdent), FALSE, FALSE, NilAnnotations),
     Field(<<"i", "d">>, TypeInfo("TypeInt64", Int64Ident), FALSE, FALSE, NilAnnotations),
     Field(<<"i", "d">>, TypeInfo("TypeInt64", NoIdent), FALSE, FALSE, NilAnnotations),
     Field(<<"i", "d">>, TypeInfo("TypeInt", IntIdent), FALSE, FALSE, NilAnnotations),
     Field(<<"i", "d">>, TypeInfo("TypeUUID", UUIDIdent), FALSE, FALSE, NilAnnotations)}

IDNodes ==
    {Type(name, id, <<>>) : name \in {<<"U", "s", "e", "r">>, <<"O", "r", "d", "e", "r">>}, id \in IDFields}

\* the operations the templates ask for, and two they do not
Operations ==
    {<<"g", "e", "t">>, <<"u", "p", "d", "a", "t", "e", "O", "n", "e", "I", "D">>, <<"d", "e", "l", "e", "t", "e">>, <<"e", "x", "i", "s", "t", "s">>, <<"b", "a", "t", "c", "h", "D", "e", "l", "e", "t", "e">>,
     <<"u", "n", "k", "n", "o", "w", "n", "_", "o", "p">>, <<"G", "e", "t">>, <<>>}

IDVars == {<<"i", "d">>, <<"r", "e", "q", ".", "I", "D">>}

\* the fields of the schemas with lookups: unique and range lookups, a
\* numeric range, fields that are only searchable, sortable, enumerated or
\* boolean, and a field whose name ends in "range"
LookupFields ==
    {Field(<<"e", "m", "a", "i", "l">>, TypeInfo("TypeString", StringIdent), FALSE, FALSE,
           DirectAnnotations(AsUniqueLookup(DomainFieldWithScopes(AllFieldScopes)))),
     Field(<<"c", "r", "e", "a", "t", "e", "d", "_", "a", "t">>, TypeInfo("TypeTime", TimeIdent), FALSE, FALSE,
           DirectAnnotations(AsRangeLookup(DomainFieldWithScopes(AllFieldScopes)))),
     Field(<<"p", "r", "i", "c", "e">>, TypeInfo("TypeInt64", Int64Ident), FALSE, FALSE,
           MapAnnotations(MapForm(AsRangeLookup(AsUniqueLookup(NewDomainField))))),
     Field(<<"p", "r", "i", "c", "e", "_", "r", "a", "n", "g", "e">>, TypeInfo("TypeString", StringIdent), FALSE, FALSE,
           DirectAnnotations(AsUniqueLookup(DefaultField))),
     Field(<<"n", "a", "m", "e">>, TypeInfo("TypeString", StringIdent), FALSE, FALSE,
           DirectAnnotations(AsSearchable(DomainFieldWithScopes(AllFieldScopes)))),
     Field(<<"s", "t", "a", "t", "u", "s">>, TypeInfo("TypeEnum", StringIdent), FALSE, FALSE,
           DirectAnnotations(DefaultField)),
     Field(<<"a", "c", "t", "i", "v", "e">>, TypeInfo("TypeBool", BoolIdent), FALSE, FALSE,
           DirectAnnotations(DefaultField))}

LookupNodes ==
    {newTestType(<<"U", "s", "e", "r">>, list) :
        list \in {l \in UNION {[1..n -> LookupFields] : n \in 0..MaxFields} :
                     \A i, j \in 1..Len(l) : i # j => l[i].Name # l[j].Name}}

InitGen ==
    /\ ServiceInit
    /\ CursorIdle
    /\ GenIdle

\* a call of the resolver by a template
CallGetDomainFieldAnnotation(field) ==
    /\ genCall.fn = "none"
    /\ genCall' = [fn |-> "getDomainFieldAnnotation", field |-> field]
    /\ genOut' = getDomainFieldAnnotation(field)
    /\ UNCHANGED <<svcVars, curVars>>

\* the resolver applied to an annotation in both its forms
CallGetDomainFieldAnnotationBothForms(df) ==
    /\ genCall.fn = "none"
    /\ genCall' = [fn |-> "getDomainFieldAnnotation: both forms", df |-> df]
    /\ genOut' =
           [direct |-> getDomainFieldAnnotation(newStringField(DirectAnnotations(df))),
            map |-> getDomainFieldAnnotation(newStringField(MapAnnotations(MapForm(df))))]
    /\ UNCHANGED <<svcVars, curVars>>

CallHasDomainScope(field, scope) ==
    /\ genCall.fn = "none"
    /\ genCall' = [fn |-> "hasDomainScope", field |-> field, scope |-> scope]
    /\ genOut' = hasDomainScope(field, scope)
    /\ UNCHANGED <<svcVars, curVars>>

CallIsDomainRequired(field, scope) ==
    /\ genCall.fn = "none"
    /\ genCall' = [fn |-> "isDomainRequired", field |-> field, scope |-> scope]
    /\ genOut' = isDomainRequired(field, scope)
    /\ UNCHANGED <<svcVars, curVars>>

CallDomainFields(node) ==
    /\ genCall.fn = "none"
    /\ genCall' = [fn |-> "domainFields", node |-> node]
    /\ genOut' = domainFields(node)
    /\ UNCHANGED <<svcVars, curVars>>

CallCreateFields(node) ==
    /\ genCall.fn = "none"
    /\ genCall' = [fn |-> "createFields", node |-> node]
    /\ genOut' = createFields(node)
    /\ UNCHANGED <<svcVars, curVars>>

CallUpdateFields(node) ==
    /\ genCall.fn = "none"
    /\ genCall' = [fn |-> "updateFields", node |-> node]
    /\ genOut' = updateFields(node)
    /\ UNCHANGED <<svcVars, curVars>>

CallResponseFields(node) ==
    /\ genCall.fn = "none"
    /\ genCall' = [fn |-> "responseFields", node |-> node]
    /\ genOut' = responseFields(node)
    /\ UNCHANGED <<svcVars, curVars>>

CallQueryFields(node) ==
    /\ genCall.fn = "none"
    /\ genCall' = [fn |-> "queryFields", node |-> node]
    /\ genOut' = queryFields(node)
    /\ UNCHANGED <<svcVars, curVars>>

CallSearchableFields(node) ==
    /\ genCall.fn = "none"
    /\ genCall' = [fn |-> "searchableFields", node |-> node]
    /\ genOut' = searchableFields(node)
    /\ UNCHANGED <<svcVars, curVars>>

CallSortableFields(node) ==
    /\ genCall.fn = "none"
    /\ genCall' = [fn |-> "sortableFields", node |-> node]
    /\ genOut' = sortableFields(node)
    /\ UNCHANGED <<svcVars, curVars>>

CallUpdateableFields(node) ==
    /\ genCall.fn = "none"
    /\ genCall' = [fn |-> "updateableFields", node |-> node]
    /\ genOut' = updateableFields(node)
    /\ UNCHANGED <<svcVars, curVars>>

CallNonDefaultDomainFields(node) ==
    /\ genCall.fn = "none"
    /\ genCall' = [fn |-> "nonDefaultDomainFields", node |-> node]
    /\ genOut' = nonDefaultDomainFields(node)
    /\ UNCHANGED <<svcVars, curVars>>

CallUniqueLookupFields(node) ==
    /\ genCall.fn = "none"
    /\ genCall' = [fn |-> "uniqueLookupFields", node |-> node]
    /\ genOut' = uniqueLookupFields(node)
    /\ UNCHANGED <<svcVars, curVars>>

CallRangeLookupFields(node) ==
    /\ genCall.fn = "none"
    /\ genCall' = [fn |-> "rangeLookupFields", node |-> node]
    /\ genOut' = rangeLookupFields(node)
    /\ UNCHANGED <<svcVars, curVars>>

CallFieldPredicate(field, node, indent, skipEmpty) ==
    /\ genCall.fn = "none"
    /\ genCall' = [fn |-> "fieldPredicate", field |-> field, node |-> node,
                   indent |-> indent, skipEmpty |-> skipEmpty]
    /\ genOut' = fieldPredicate(field, node, indent, skipEmpty)
    /\ UNCHANGED <<svcVars, curVars>>

CallSearchMethod(field, node) ==
    /\ genCall.fn = "none"
    /\ genCall' = [fn |-> "searchMethod", field |-> field, node |-> node,
                   indent |-> <<Tab, Tab, Tab>>, skipEmpty |-> TRUE]
    /\ genOut' = searchMethod(field, node)
    /\ UNCHANGED <<svcVars, curVars>>

CallFindByMethod(field, node) ==
    /\ genCall.fn = "none"
    /\ genCall' = [fn |-> "findByMethod", field |-> field, node |-> node,
                   indent |-> <<Tab, Tab>>, skipEmpty |-> FALSE]
    /\ genOut' = findByMethod(field, node)
    /\ UNCHANGED <<svcVars, curVars>>

CallGenerateSearchCondition(field, node) ==
    /\ genCall.fn = "none"
    /\ genCall' = [fn |-> "generateSearchCondition", field |-> field, node |-> node]
    /\ genOut' = generateSearchCondition(field, node)
    /\ UNCHANGED <<svcVars, curVars>>

CallGenerateIdOperation(node, operation, idVar) ==
    /\ genCall.fn = "none"
    /\ genCall' = [fn |-> "generateIdOperation", node |-> node,
                   operation |-> operation, idVar |-> idVar]
    /\ genOut' = generateIdOperation(node, operation, idVar)
    /\ UNCHANGED <<svcVars, curVars>>

CallSpecificMethods(node) ==
    /\ genCall.fn = "none"
    /\ genCall' = [fn |-> "specificMethods", node |-> node]
    /\ genOut' = specificMethods(node)
    /\ UNCHANGED <<svcVars, curVars>>

NextGen ==
    \/ \E field \in AnnotatedFields : CallGetDomainFieldAnnotation(field)
    \/ \E df \in DomainFields : CallGetDomainFieldAnnotationBothForms(df)
    \/ \E field \in AnnotatedFields, scope \in FieldScopes : CallHasDomainScope(field, scope)
    \/ \E field \in AnnotatedFields, scope \in FieldScopes : CallIsDomainRequired(field, scope)
    \/ \E node \in Nodes : CallDomainFields(node)
    \/ \E node \in Nodes : CallCreateFields(node)
    \/ \E node \in Nodes : CallUpdateFields(node)
    \/ \E node \in Nodes : CallResponseFields(node)
    \/ \E node \in Nodes : CallQueryFields(node)
    \/ \E node \in Nodes : CallSearchableFields(node)
    \/ \E node \in Nodes : CallSortableFields(node)
    \/ \E node \in Nodes : CallUpdateableFields(node)
    \/ \E node \in Nodes : CallNonDefaultDomainFields(node)
    \/ \E node \in Nodes : CallUniqueLookupFields(node)
    \/ \E node \in Nodes : CallRangeLookupFields(node)
    \/ \E field \in PredicateFields, node \in PredicateNodes, indent \in Indents,
          skipEmpty \in BOOLEAN : CallFieldPredicate(field, node, indent, skipEmpty)
    \/ \E field \in PredicateFields, node \in PredicateNodes : CallSearchMethod(field, node)
    \/ \E field \in PredicateFields, node \in PredicateNodes : CallFindByMethod(field, node)
    \/ \E field \in PredicateFields, node \in PredicateNodes :
          CallGenerateSearchCondition(field, node)
    \/ \E node \in IDNodes, operation \in Operations, idVar \in IDVars :
          CallGenerateIdOperation(node, operation, idVar)
    \/ \E node \in LookupNodes : CallSpecificMethods(node)

\* the template functions of the code generator
SpecGen == InitGen /\ [][NextGen]_vars

----------------------------------------------------------------------------
(* Value types: requests, identifiers and the builders of annotations      *)

\* a pointer to a request: nil, or the request it points to
NilRequest == [nil |-> TRUE, val |-> NoRequest]

RequestPtr(r) == [nil |-> FALSE, val |-> r]

\* (*ListRequest).SetDefaults and (*SearchRequest).SetDefaults
SetDefaults(r) ==
    IF r.Size = 0 THEN [r EXCEPT !.Size = DefaultPageSize] ELSE r

\* the bounds Validate tests on both requests with the upper size test left out
ValidatePagingNoUpper(r) ==
    IF r.Size < 0 THEN NewError(<<"size cannot be negative">>)
    ELSE IF r.Page < 0 THEN NewError(<<"page cannot be negative">>)
    ELSE IF r.Order # "" /\ r.Order # "asc" /\ r.Order # "desc"
         THEN NewError(<<"order must be 'asc' or 'desc'">>)
         ELSE NoError

\* the bounds Validate tests on both requests
ValidatePaging(r) ==
    IF r.Size < 0 THEN NewError(<<"size cannot be negative">>)
    ELSE IF r.Size > MaxPageSize THEN NewError(<<"size cannot exceed 1000">>)
    ELSE IF r.Page < 0 THEN NewError(<<"page cannot be negative">>)
    ELSE IF r.Order # "" /\ r.Order # "asc" /\ r.Order # "desc"
         THEN NewError(<<"order must be 'asc' or 'desc'">>)
         ELSE NoError

\* (*ListRequest).Validate
ListRequestValidate(p) ==
    IF p.nil THEN NewError(<<"list request cannot be nil">>)
    ELSE ValidatePaging(p.val)

\* (*SearchRequest).Validate
SearchRequestValidate(p) ==
    IF p.nil THEN NewError(<<"search request cannot be nil">>)
    ELSE IF p.val.Query = "" /\ Cardinality(p.val.Filters) = 0
         THEN NewError(<<"either query or filters must be provided">>)
         ELSE ValidatePaging(p.val)

ValidateOrders == {"", "asc", "desc", "ASC"}

FilterMaps == {{}, {<<"status", "active">>}}

ListRequests ==
    {NilRequest} \cup
    {RequestPtr(ListRequest(page, size, sortBy, order)) :
        page \in Pages, size \in Sizes, sortBy \in SortBys, order \in ValidateOrders}

SearchRequests ==
    {NilRequest} \cup
    {RequestPtr([SearchRequest(query, size, page) EXCEPT !.Filters = filters, !.Order = order]) :
        query \in {"", "ann"}, size \in Sizes, page \in Pages,
        filters \in FilterMaps, order \in ValidateOrders}

\* a caller takes a request
NewRequest(type, p) ==
    /\ genCall.fn = "none"
    /\ genCall' = [fn |-> type, arg |-> p, steps |-> <<>>]
    /\ genOut' = [req |-> p, err |-> NoError]
    /\ UNCHANGED <<svcVars, curVars>>

\* the caller calls SetDefaults on its request (never on nil: the method
\* reads r.Size)
CallSetDefaults ==
    /\ genCall.fn \in {"ListRequest", "SearchRequest"}
    /\ genCall.steps = <<>>
    /\ ~genOut.req.nil
    /\ genCall' = [genCall EXCEPT !.steps = Append(@, "SetDefaults")]
    /\ genOut' = [genOut EXCEPT !.req = RequestPtr(SetDefaults(@.val))]
    /\ UNCHANGED <<svcVars, curVars>>

\* the caller calls Validate on its request: the request is left as it is
CallValidate ==
    /\ genCall.fn \in {"ListRequest", "SearchRequest"}
    /\ "Validate" \notin {genCall.steps[i] : i \in 1..Len(genCall.steps)}
    /\ genCall' = [genCall EXCEPT !.steps = Append(@, "Validate")]
    /\ genOut' = [genOut EXCEPT !.err = IF genCall.fn = "ListRequest"
                                        THEN ListRequestValidate(genOut.req)
                                        ELSE SearchRequestValidate(genOut.req)]
    /\ UNCHANGED <<svcVars, curVars>>

\* strconv.ParseUint(s, 10, 64): digit by digit, the first failure is kept
ParseUint(s) ==
    LET Step(acc, ch) ==
            IF acc.st # "ok" THEN acc
            ELSE IF ~IsDigit(ch) THEN [st |-> "syntax", mag |-> MagZero]
            ELSE LET r == MagMulAdd(acc.mag, 10, DigitVal(ch))
                 IN  IF r.over THEN [st |-> "range", mag |-> MagZero]
                     ELSE [st |-> "ok", mag |-> r.mag]
        n[i \in 0..Len(s)] ==
            IF i = 0 THEN [st |-> IF s = <<>> THEN "syntax" ELSE "ok", mag |-> MagZero]
            ELSE Step(n[i - 1], s[i])
    IN  n[Len(s)]

\* the errors of strconv.ParseInt (the quoted input is left out of the text)
ErrSyntax == NewError(<<"strconv.ParseInt", "invalid syntax">>)
ErrRange == NewError(<<"strconv.ParseInt", "value out of range">>)

\* strconv.ParseInt(s, 10, 64)
ParseInt(s) ==
    LET Signed(neg, un) ==
            IF un.st = "syntax" THEN [n |-> I64(0), err |-> ErrSyntax]
            ELSE IF un.st = "range" \/ ~InInt64Range(neg, un.mag)
                 THEN [n |-> IF neg THEN MinInt64 ELSE MaxInt64, err |-> ErrRange]
                 ELSE [n |-> [neg |-> neg /\ un.mag # MagZero, mag |-> un.mag],
                       err |-> NoError]
    IN  IF s = <<>> THEN [n |-> I64(0), err |-> ErrSyntax]
        ELSE IF s[1] = "+" THEN Signed(FALSE, ParseUint(Tail(s)))
        ELSE IF s[1] = "-" THEN Signed(TRUE, ParseUint(Tail(s)))
        ELSE Signed(FALSE, ParseUint(s))

\* ID.Int64() with the empty string read as 0
Int64EmptyAsZero(id) ==
    IF id.kind = "string"
    THEN (IF id.s = <<>> THEN [n |-> I64(0), err |-> NoError] ELSE ParseInt(id.s))
    ELSE [n |-> id.n, err |-> NoError]

\* ID.Int64()
Int64(id) ==
    IF id.kind = "string" THEN ParseInt(id.s) ELSE [n |-> id.n, err |-> NoError]

\* int64 values and their base-10 text
Renderings ==
    {<<I64(0), <<"0">>>>, <<I64(7), <<"7">>>>, <<I64(-7), <<"-", "7">>>>, <<I64(1000), <<"1", "0", "0", "0">>>>,
     <<[neg |-> FALSE, mag |-> <<0, 1, 0, 0>>], <<"6", "5", "5", "3", "6">>>>,
     <<MaxInt64, <<"9", "2", "2", "3", "3", "7", "2", "0", "3", "6", "8", "5", "4", "7", "7", "5", "8", "0", "7">>>>, <<MinInt64, <<"-", "9", "2", "2", "3", "3", "7", "2", "0", "3", "6", "8", "5", "4", "7", "7", "5", "8", "0", "8">>>>}

IDTexts ==
    {<<>>, <<"a">>, <<"7">>, <<"-", "7">>, <<"+", "7">>, <<"0", "0", "7">>, <<"-">>, <<"+">>, <<"1", "a">>, <<" ", "7">>, <<"7", " ">>,
     <<"0">>, <<"-", "0">>, <<"1", "_", "0", "0", "0">>, <<"7", ".", "0">>, <<"-", "-", "7">>, <<"6", "5", "5", "3", "6">>,
     <<"9", "2", "2", "3", "3", "7", "2", "0", "3", "6", "8", "5", "4", "7", "7", "5", "8", "0", "7">>, <<"9", "2", "2", "3", "3", "7", "2", "0", "3", "6", "8", "5", "4", "7", "7", "5", "8", "0", "8">>, <<"-", "9", "2", "2", "3", "3", "7", "2", "0", "3", "6", "8", "5", "4", "7", "7", "5", "8", "0", "8">>,
     <<"-", "9", "2", "2", "3", "3", "7", "2", "0", "3", "6", "8", "5", "4", "7", "7", "5", "8", "0", "9">>, <<"1", "8", "4", "4", "6", "7", "4", "4", "0", "7", "3", "7", "0", "9", "5", "5", "1", "6", "1", "5">>, <<"1", "8", "4", "4", "6", "7", "4", "4", "0", "7", "3", "7", "0", "9", "5", "5", "1", "6", "1", "6">>,
     <<"9", "9", "9", "9", "9", "9", "9", "9", "9", "9", "9", "9", "9", "9", "9", "9", "9", "9", "9", "9">>, <<"0", "0", "0", "0", "0", "0", "0", "0", "0", "0", "0", "0", "0", "0", "0", "0", "0", "0", "0", "0", "0", "0", "7">>}

IDValues == {StringID(s) : s \in IDTexts} \cup {Int64ID(p[1]) : p \in Renderings}

CallString(id) ==
    /\ genCall.fn = "none"
    /\ genCall' = [fn |-> "ID.String", id |-> id]
    /\ genOut' = String(id)
    /\ UNCHANGED <<svcVars, curVars>>

CallIsZero(id) ==
    /\ genCall.fn = "none"
    /\ genCall' = [fn |-> "ID.IsZero", id |-> id]
    /\ genOut' = IsZero(id)
    /\ UNCHANGED <<svcVars, curVars>>

CallInt64(id) ==
    /\ genCall.fn = "none"
    /\ genCall' = [fn |-> "ID.Int64", id |-> id]
    /\ genOut' = Int64(id)
    /\ UNCHANGED <<svcVars, curVars>>

\* Annotation builders.  A DomainField is copied by value into the builder,
\* but its Required map, its Metadata block and its Scopes slice are
\* references: the copy and the receiver share what they point to.  A
\* reference is a position in the heap, 0 for nil.

\* FieldMetadata{}
FieldMetadata ==
    [Title |-> "", Format |-> "", Pattern |-> "", Minimum |-> <<>>, Maximum |-> <<>>,
     MinLength |-> <<>>, MaxLength |-> <<>>, Enum |-> <<>>, ReadOnly |-> FALSE,
     WriteOnly |-> FALSE, Deprecated |-> FALSE, Tags |-> <<>>]

\* the heap at the start: the package variable AllFieldScopes, no map, no block
Heap == [scopes |-> <<AllFieldScopes>>, maps |-> <<>>, metas |-> <<>>]

NilRef == 0

\* the reference of the slice of AllFieldScopes
AllFieldScopesRef == 1

\* DomainField{} with its references
DomainField ==
    [Scopes |-> NilRef, Required |-> NilRef, Metadata |-> NilRef, Description |-> "",
     Sensitive |-> FALSE, Searchable |-> FALSE, Sortable |-> FALSE,
     Filterable |-> FALSE, UniqueLookup |-> FALSE, RangeLookup |-> FALSE]

\* what a builder hands back: the annotation and the heap it leaves
Built(d, h) == [d |-> d, h |-> h]

\* WithRequired: make the map when it is nil, then d.Required[scope] = true
WithRequired(d, h, scope) ==
    IF d.Required = NilRef
    THEN Built([d EXCEPT !.Required = Len(h.maps) + 1],
               [h EXCEPT !.maps = Append(@, {<<scope, TRUE>>})])
    ELSE Built(d, [h EXCEPT !.maps[d.Required] =
                        {e \in @ : e[1] # scope} \cup {<<scope, TRUE>>}])

\* ensureMetadata: a new block when the annotation has none
ensureMetadata(d, h) ==
    IF d.Metadata = NilRef
    THEN Built([d EXCEPT !.Metadata = Len(h.metas) + 1],
               [h EXCEPT !.metas = Append(@, FieldMetadata)])
    ELSE Built(d, h)

\* d = d.ensureMetadata(); d.Metadata.<field> = <value>
SetMetadata(d, h, Set(_)) ==
    LET e == ensureMetadata(d, h)
    IN  Built(e.d, [e.h EXCEPT !.metas[e.d.Metadata] = Set(@)])

WithTitle(d, h, title) == SetMetadata(d, h, LAMBDA m : [m EXCEPT !.Title = title])
WithFormat(d, h, format) == SetMetadata(d, h, LAMBDA m : [m EXCEPT !.Format = format])
WithPattern(d, h, pattern) == SetMetadata(d, h, LAMBDA m : [m EXCEPT !.Pattern = pattern])
WithRange(d, h, min, max) ==
    SetMetadata(d, h, LAMBDA m : [m EXCEPT !.Minimum = min, !.Maximum = max])
WithLength(d, h, min, max) ==
    SetMetadata(d, h, LAMBDA m : [m EXCEPT !.MinLength = min, !.MaxLength = max])
WithEnum(d, h, values) == SetMetadata(d, h, LAMBDA m : [m EXCEPT !.Enum = values])
WithTags(d, h, tags) == SetMetadata(d, h, LAMBDA m : [m EXCEPT !.Tags = tags])
AsReadOnly(d, h) == SetMetadata(d, h, LAMBDA m : [m EXCEPT !.ReadOnly = TRUE])
AsWriteOnly(d, h) == SetMetadata(d, h, LAMBDA m : [m EXCEPT !.WriteOnly = TRUE])
AsDeprecated(d, h) == SetMetadata(d, h, LAMBDA m : [m EXCEPT !.Deprecated = TRUE])

\* WithMetadata: d.Metadata = &metadata, a block of its own
WithMetadata(d, h, metadata) ==
    Built([d EXCEPT !.Metadata = Len(h.metas) + 1], [h EXCEPT !.metas = Append(@, metadata)])

\* the constructors: DomainField{}, DefaultField() on the slice of
\* AllFieldScopes, IdField() on a slice of its own and with a metadata block
Construct(name, h) ==
    CASE name = "NewDomainField" -> Built(DomainField, h)
      [] name = "DefaultField" ->
            Built(AsSortable(AsFilterable(AsSearchable(
                      [DomainField EXCEPT !.Scopes = AllFieldScopesRef]))), h)
      [] name = "IdField" ->
            AsReadOnly([AsSortable(AsFilterable(AsSearchable(
                            [DomainField EXCEPT !.Scopes = Len(h.scopes) + 1])))
                            EXCEPT !.Description = "Unique entity identifier"],
                       [h EXCEPT !.scopes = Append(@, <<ScopeQuery, ScopeResponse>>)])

\* a call of a builder on the annotation d
Build(call, d, h) ==
    CASE call.name = "WithRequired" -> WithRequired(d, h, call.arg)
      [] call.name = "WithTitle" -> WithTitle(d, h, call.arg)
      [] call.name = "WithFormat" -> WithFormat(d, h, call.arg)
      [] call.name = "WithPattern" -> WithPattern(d, h, call.arg)
      [] call.name = "WithRange" -> WithRange(d, h, call.arg, call.arg)
      [] call.name = "WithLength" -> WithLength(d, h, call.arg, call.arg)
      [] call.name = "WithEnum" -> WithEnum(d, h, call.arg)
      [] call.name = "WithTags" -> WithTags(d, h, call.arg)
      [] call.name = "WithMetadata" -> WithMetadata(d, h, call.arg)
      [] call.name = "WithDescription" -> Built([d EXCEPT !.Description = call.arg], h)
      [] call.name = "AsReadOnly" -> AsReadOnly(d, h)
      [] call.name = "AsWriteOnly" -> AsWriteOnly(d, h)
      [] call.name = "AsDeprecated" -> AsDeprecated(d, h)
      [] call.name = "AsSensitive" -> Built([d EXCEPT !.Sensitive = TRUE], h)
      [] call.name = "AsSearchable" -> Built(AsSearchable(d), h)
      [] call.name = "AsSortable" -> Built(AsSortable(d), h)
      [] call.name = "AsFilterable" -> Built(AsFilterable(d), h)
      [] call.name = "AsUniqueLookup" -> Built(AsUniqueLookup(d), h)
      [] call.name = "AsRangeLookup" -> Built(AsRangeLookup(d), h)

\* the longest chain of builder calls on a constructed annotation
MaxCalls == 2

Constructors == {"NewDomainField", "DefaultField", "IdField"}

BuilderCalls ==
    {[name |-> "WithRequired", arg |-> s] : s \in {ScopeCreate, ScopeUpdate}}
    \cup {[name |-> n, arg |-> a] : n \in {"WithTitle", "WithFormat", "WithPattern"},
                                   a \in {"a"}}
    \cup {[name |-> "WithTitle", arg |-> "b"], [name |-> "WithDescription", arg |-> "text"]}
    \cup {[name |-> n, arg |-> <<1>>] : n \in {"WithRange", "WithLength"}}
    \cup {[name |-> n, arg |-> <<"x", "y">>] : n \in {"WithEnum", "WithTags"}}
    \cup {[name |-> "WithMetadata", arg |-> [FieldMetadata EXCEPT !.Title = "set"]]}
    \cup {[name |-> n, arg |-> <<>>] :
            n \in {"AsReadOnly", "AsWriteOnly", "AsDeprecated", "AsSensitive", "AsSearchable",
                   "AsSortable", "AsFilterable", "AsUniqueLookup", "AsRangeLookup"}}

\* a schema builds an annotation with a constructor
CallConstructor(name) ==
    /\ genCall.fn = "none"
    /\ genCall' = [fn |-> "builder", call |-> [name |-> name, arg |-> <<>>],
                   recv |-> DomainField, heap |-> Heap, calls |-> 0]
    /\ genOut' = Construct(name, Heap)
    /\ UNCHANGED <<svcVars, curVars>>

\* and calls a builder on the annotation it holds
CallBuilder(call) ==
    /\ genCall.fn = "builder"
    /\ genCall.calls < MaxCalls
    /\ genCall' = [fn |-> "builder", call |-> call, recv |-> genOut.d, heap |-> genOut.h,
                   calls |-> genCall.calls + 1]
    /\ genOut' = Build(call, genOut.d, genOut.h)
    /\ UNCHANGED <<svcVars, curVars>>

InitTypes ==
    /\ ServiceInit
    /\ CursorIdle
    /\ GenIdle

NextTypes ==
    \/ \E type \in {"ListRequest", "SearchRequest"} :
            \E p \in (IF type = "ListRequest" THEN ListRequests ELSE SearchRequests) :
                NewRequest(type, p)
    \/ CallSetDefaults
    \/ CallValidate
    \/ \E id \in IDValues : CallString(id)
    \/ \E id \in IDValues : CallIsZero(id)
    \/ \E id \in IDValues : CallInt64(id)
    \/ \E name \in Constructors : CallConstructor(name)
    \/ \E call \in BuilderCalls : CallBuilder(call)

\* the value types
SpecTypes == InitTypes /\ [][NextTypes]_vars

----------------------------------------------------------------------------
(* Properties of the generic CRUD runtime (checked under Spec) *)

\* the storage methods an operation has called so far, in order
Methods(c) == [i \in 1..Len(repoCalls[c]) |-> repoCalls[c][i].method]

\* the operation of caller c called storage method m
Called(c, m) == \E i \in 1..Len(repoCalls[c]) : repoCalls[c][i].method = m

\* C1: Update with a non-zero ID and a valid request whose storage GetByID
\* fails has returned an error that starts with "failed to get existing
\* model" and wraps the storage error, and storage Update is not called.
C1_UpdateLookupFailureStops ==
    \A c \in DOMAIN pc :
        ( /\ op[c].name = "Update"
          /\ ~IsZero(op[c].id)
          /\ op[c].req.validate = NoError
          /\ Len(repoCalls[c]) >= 1
          /\ repoCalls[c][1].method = "GetByID"
          /\ repoCalls[c][1].err # NoError )
        => /\ pc[c] = "done"
           /\ ret[c].err # NoError
           /\ ret[c].err.msg[1] = "failed to get existing model"
           /\ ret[c].err.cause = <<repoCalls[c][1].err>>
           /\ ~Called(c, "Update")

C1_Witness ==
    \E c \in DOMAIN pc :
        /\ op[c].name = "Update"
        /\ pc[c] = "done"
        /\ Len(repoCalls[c]) = 1
        /\ repoCalls[c][1].err = ErrNotFound

\* C2: GetByID, Update and Delete called with an ID whose IsZero() is true
\* return an "invalid ID" error and invoke no storage method.
C2_ZeroIDRejected ==
    \A c \in DOMAIN pc :
        (op[c].name \in {"GetByID", "Update", "Delete"} /\ IsZero(op[c].id))
        => /\ pc[c] = "done"
           /\ ret[c].err # NoError
           /\ ret[c].err.msg[1] = "invalid ID"
           /\ repoCalls[c] = <<>>

C2_Witness ==
    \E c \in DOMAIN pc :
        /\ op[c].name = "GetByID"
        /\ op[c].id = Int64ID(I64(0))
        /\ ret[c].err.msg = <<"invalid ID", <<"0">> >>

\* the request (or query parameters) of the operation failed Validate(),
\* and the operation got as far as calling it
ValidationFailed(c) ==
    \/ op[c].name \in {"Create", "Search"} /\ op[c].req.validate # NoError
    \/ op[c].name = "Update" /\ ~IsZero(op[c].id) /\ op[c].req.validate # NoError

\* C3: when Validate() fails in Create, Update or Search the operation
\* returns an error prefixed "validation failed" that wraps the validation
\* error, and no storage method is called.
C3_ValidationFailsFast ==
    \A c \in DOMAIN pc :
        ValidationFailed(c)
        => /\ pc[c] = "done"
           /\ ret[c].err # NoError
           /\ ret[c].err.msg[1] = "validation failed"
           /\ ret[c].err.cause = <<op[c].req.validate>>
           /\ repoCalls[c] = <<>>

C3_Witness ==
    \E c \in DOMAIN pc :
        /\ op[c].name = "Search"
        /\ op[c].req.validate = Wrapf("email format", ErrValidation)
        /\ IsValidation(ret[c].err)

\* C4: the model passed to storage Update has GetID() equal to the id
\* argument of Update, whatever identity ApplyToDomainModel returned.
C4_UpdateReimposesID ==
    \A c \in DOMAIN pc :
        \A i \in 1..Len(repoCalls[c]) :
            repoCalls[c][i].method = "Update"
            => GetID(repoCalls[c][i].model) = op[c].id

C4_Witness ==
    \E c \in DOMAIN pc :
        /\ op[c].name = "Update"
        /\ op[c].req.apply = "alter"
        /\ Called(c, "Update")
        /\ op[c].id # Int64ID(I64(9))

\* the size and page List is specified to send, written out case by case
SpecifiedSize(size) ==
    IF 1 <= size /\ size <= 1000 THEN size ELSE 20

SpecifiedPage(page) == IF page >= 0 THEN page ELSE 0

\* C5: the ListRequest List sends to storage has Size = size when
\* 1 <= size <= 1000 and 20 otherwise, Page = page when page >= 0 and 0
\* otherwise; the converter gets the same clamped page and size.
C5_ListClamps ==
    \A c \in DOMAIN pc :
        op[c].name = "List"
        => /\ \A i \in 1..Len(repoCalls[c]) :
                 /\ repoCalls[c][i].req.Size = SpecifiedSize(op[c].size)
                 /\ repoCalls[c][i].req.Page = SpecifiedPage(op[c].page)
           /\ \A i \in 1..Len(convCalls[c]) :
                 /\ convCalls[c][i].size = SpecifiedSize(op[c].size)
                 /\ convCalls[c][i].page = SpecifiedPage(op[c].page)

C5_Witness ==
    \E c \in DOMAIN pc :
        /\ op[c].name = "List"
        /\ op[c].size = -1
        /\ op[c].page = -1
        /\ Len(convCalls[c]) = 1
        /\ repoCalls[c][1].req.Size = DefaultPageSize

\* C6: on success Search hands the converter the models and total storage
\* returned and the Page and Size of the request params.ToSearchRequest()
\* produced, which is the request storage received.
C6_SearchUsesRequestPaging ==
    \A c \in DOMAIN pc :
        (op[c].name = "Search" /\ pc[c] = "done" /\ ret[c].err = NoError)
        => /\ Len(repoCalls[c]) = 1
           /\ repoCalls[c][1].req = op[c].req.toSearchRequest
           /\ convCalls[c] = <<ret[c].val>>
           /\ ret[c].val.models = repoCalls[c][1].out.models
           /\ ret[c].val.total = repoCalls[c][1].out.total
           /\ ret[c].val.page = op[c].req.toSearchRequest.Page
           /\ ret[c].val.size = op[c].req.toSearchRequest.Size

C6_Witness ==
    \E c \in DOMAIN pc :
        /\ op[c].name = "Search"
        /\ pc[c] = "done"
        /\ ret[c].err = NoError
        /\ ret[c].val.page = 2
        /\ ret[c].val.size = 1001
        /\ ret[c].val.total = 1

\* the fixed prefix of the stage at which an operation calls a storage method
StagePrefix(name, method) ==
    CASE name = "Create"                       -> "failed to create"
      [] name = "GetByID"                      -> "failed to get by ID"
      [] name = "Update" /\ method = "GetByID" -> "failed to get existing model"
      [] name = "Update" /\ method = "Update"  -> "failed to update"
      [] name = "Delete"                       -> "failed to delete"
      [] name = "List"                         -> "failed to list"
      [] name = "Search"                       -> "failed to search"
      [] OTHER                                 -> "none"

\* C7: when a storage call returns an error e the operation returns a non-nil
\* error whose unwrap chain contains e (so IsNotFound / IsAlreadyExists answer
\* as they do on e) and whose message begins with the stage's prefix.
C7_StorageErrorsWrapped ==
    \A c \in DOMAIN pc :
        \A i \in 1..Len(repoCalls[c]) :
            LET e == repoCalls[c][i].err
            IN  e # NoError
                => /\ pc[c] = "done"
                   /\ ret[c].err # NoError
                   /\ ret[c].val = ZeroVal
                   /\ Is(ret[c].err, e)
                   /\ IsNotFound(ret[c].err) = IsNotFound(e)
                   /\ IsAlreadyExists(ret[c].err) = IsAlreadyExists(e)
                   /\ ret[c].err.msg[1] = StagePrefix(op[c].name, repoCalls[c][i].method)

C7_Witness ==
    \E c \in DOMAIN pc :
        /\ op[c].name = "Update"
        /\ Len(repoCalls[c]) = 2
        /\ repoCalls[c][2].err = Wrapf("person 123", ErrNotFound)
        /\ IsNotFound(ret[c].err)
        /\ ret[c].err # ErrNotFound

\* the storage methods an operation may call, in order
AllowedMethods(name) ==
    CASE name = "Create"  -> <<"Create">>
      [] name = "GetByID" -> <<"GetByID">>
      [] name = "Update"  -> <<"GetByID", "Update">>
      [] name = "Delete"  -> <<"Delete">>
      [] name = "List"    -> <<"List">>
      [] name = "Search"  -> <<"Search">>
      [] OTHER            -> <<>>

\* C8: within one operation no storage method is invoked more than once and
\* a failed storage call is the operation's last storage call; Update calls
\* GetByID and then Update, every other operation its counterpart only.
C8_NoRetries ==
    \A c \in DOMAIN pc :
        /\ Len(repoCalls[c]) <= Len(AllowedMethods(op[c].name))
        /\ Methods(c) = SubSeq(AllowedMethods(op[c].name), 1, Len(repoCalls[c]))
        /\ \A i \in 1..Len(repoCalls[c]) :
              repoCalls[c][i].err # NoError => i = Len(repoCalls[c])

C8_Witness ==
    \E c \in DOMAIN pc :
        /\ op[c].name = "Delete"
        /\ pc[c] = "done"
        /\ Len(repoCalls[c]) = 1
        /\ repoCalls[c][1].err = NewError(<<"db connection refused">>)

----------------------------------------------------------------------------
(* Properties of the cursor codec (checked under SpecCursor) *)

\* every token the codec was given lies in the part of JSON the parser covers
CursorInModel == dec.status # "unmodelled"

\* the decoded value equals the original: the same kind and content, or the
\* same number (an int64 standing for a whole-number float64)
SameValue(d, o) ==
    \/ d = o
    \/ /\ d.t = "int64"
       /\ o.t = "float64"
       /\ o.f.frac = <<>>
       /\ o.f.mag = d.n.mag
       /\ (o.f.neg = d.n.neg \/ d.n.mag = MagZero)

\* C9: for a cursor whose ID is a string or an integer and whose sort value
\* is absent, a string, an integer, a number or a boolean,
\* DecodeCursor(EncodeCursor(c)) succeeds and yields an ID equal to the
\* original with the same backing kind and a Value equal to the original.
C9_RoundTrip ==
    ( /\ cpc = "roundtrip"
      /\ ~cur.nil
      /\ cur.ID.t \in {"string", "int64"}
      /\ cur.Value.t \in {"nil", "string", "int64", "float64", "bool"} )
    => /\ dec.status = "returned"
       /\ dec.err = NoError
       /\ dec.c.ID = cur.ID
       /\ SameValue(dec.c.Value, cur.Value)

\* tokens that are not unpadded URL-safe base64
NotBase64Tokens == {TokNotBase64, TokDangling, TokPadded, TokStdAlphabet}

\* base64 tokens whose payload is not JSON
NotJSONTokens == {TokNotJSON, TokTrailing, TokUnclosed, TokLeadingZero}

\* base64 tokens of a JSON object without an id, or with a null id
NoIDTokens == {TokMissingID, TokEmptyObject, TokNullID, TokNullIDValue}

\* each kind of malformed token is refused at its own stage of DecodeCursor
DecodeErrorStages ==
    cpc = "decoded" =>
        /\ tok \in NotBase64Tokens
              => dec.err = Wrapf("invalid cursor encoding", CorruptInputError)
        /\ tok \in NotJSONTokens
              => dec.err = Wrapf("invalid cursor data", SyntaxError)
        /\ tok \in NoIDTokens
              => dec.err = NewError(<<"cursor missing required ID field">>)

\* C10: EncodeCursor(nil) is the empty string, and DecodeCursor returns an
\* error and no cursor for the empty token, a token that is not unpadded
\* URL-safe base64, a token whose payload is not JSON, and a JSON object
\* with no id field or a null id.
C10_NilAndMalformed ==
    /\ (cpc \in {"encoded", "roundtrip"} /\ cur.nil) => tok = <<>>
    /\ ( /\ cpc \in {"roundtrip", "decoded"}
         /\ \/ tok = <<>>
            \/ tok \in NotBase64Tokens \cup NotJSONTokens \cup NoIDTokens
            \/ (cpc = "roundtrip" /\ ~cur.nil /\ cur.ID.t = "nil"
                /\ cur.Value.t # "unsupported") )
       => /\ dec.status = "returned"
          /\ dec.err # NoError
          /\ dec.c = NilCursor

C10_Witness ==
    /\ cpc = "decoded"
    /\ tok = TokMissingID
    /\ dec.err = NewError(<<"cursor missing required ID field">>)

\* a decoded field d against the field o it was encoded from: an integer comes
\* back as that integer, and a fraction, a string or an absent value unchanged
Normalized(d, o) ==
    /\ o.t = "int64" => d = o
    /\ (o.t \in {"string", "nil"} \/ (o.t = "float64" /\ o.f.frac # <<>>)) => d = o

\* C11: after decoding, an ID or Value that was encoded from an integer n is
\* an integer-typed value equal to n, for every 64-bit n (magnitudes above
\* 2^53 included), and a non-whole number, a string or an absent value is
\* returned unchanged.
C11_NumbersNormalized ==
    ( /\ cpc = "roundtrip"
      /\ ~cur.nil
      /\ cur.ID.t # "nil"
      /\ cur.ID.t # "unsupported"
      /\ cur.Value.t # "unsupported" )
    => /\ dec.status = "returned"
       /\ dec.err = NoError
       /\ Normalized(dec.c.ID, cur.ID)
       /\ Normalized(dec.c.Value, cur.Value)

----------------------------------------------------------------------------
(* Properties of the code generator (checked under SpecGen) *)

\* the scopes in the scope list of an annotation
ScopesOf(df) == {df.Scopes.list[i] : i \in 1..Len(df.Scopes.list)}

\* the annotation is present and its scope list contains the scope
InScope(annotation, scope) == ~annotation.nil /\ scope \in ScopesOf(annotation.df)

\* C12: hasDomainScope(field, s) is true if and only if the field has a
\* resolvable annotation whose scope list contains s; a field with no
\* annotation, or with an annotation whose scope list is empty, yields false
\* for all four scopes.
C12_HasDomainScope ==
    genCall.fn = "hasDomainScope" =>
        /\ genOut <=> InScope(getDomainFieldAnnotation(genCall.field), genCall.scope)
        /\ genCall.field.Annotations.kind \in {"nil", "nokey"} => ~genOut
        /\ genCall.field.Annotations.kind = "pointer" =>
              (genOut <=> genCall.scope \in ScopesOf(genCall.field.Annotations.df))
        /\ ( /\ genCall.field.Annotations.kind = "pointer"
             /\ genCall.field.Annotations.df.Scopes.list = <<>> ) => ~genOut

C12_Witness ==
    /\ genCall.fn = "hasDomainScope"
    /\ genCall.field.Annotations.kind = "map"
    /\ genCall.field.Annotations.m =
          {<<"scopes", GenericScopes(<<ScopeCreate, ScopeUpdate>>)>>}
    /\ genCall.scope = ScopeUpdate
    /\ genOut = TRUE

\* the annotation is present and its required map holds the scope mapped to true
RequiredIn(annotation, scope) ==
    ~annotation.nil /\ <<scope, TRUE>> \in annotation.df.Required.m

\* C13: isDomainRequired(field, scope) is true if and only if the field has
\* an annotation whose required map contains that scope mapped to true; it is
\* false when the annotation is absent, the required map is nil, the scope
\* key is missing or the key is mapped to false, whether or not the scope is
\* in the field's scope list.
C13_IsDomainRequired ==
    genCall.fn = "isDomainRequired" =>
        /\ genOut <=> RequiredIn(getDomainFieldAnnotation(genCall.field), genCall.scope)
        /\ genCall.field.Annotations.kind \in {"nil", "nokey"} => ~genOut
        /\ genCall.field.Annotations.kind = "pointer" =>
              /\ genOut <=> <<genCall.scope, TRUE>> \in genCall.field.Annotations.df.Required.m
              /\ genCall.field.Annotations.df.Required.nil => ~genOut
              /\ <<genCall.scope, FALSE>> \in genCall.field.Annotations.df.Required.m => ~genOut

\* required in a scope the scope list does not hold
C13_Witness ==
    /\ genCall.fn = "isDomainRequired"
    /\ genCall.field.Annotations.kind = "pointer"
    /\ genCall.scope = ScopeQuery
    /\ genCall.scope \notin ScopesOf(genCall.field.Annotations.df)
    /\ genOut = TRUE

\* two resolved annotations with the same scope list in the same order, the
\* same required entries and the same flags
SameAnnotation(a, b) ==
    /\ ~a.nil
    /\ ~b.nil
    /\ a.df.Scopes.list = b.df.Scopes.list
    /\ a.df.Required.m = b.df.Required.m
    /\ a.df.Searchable = b.df.Searchable
    /\ a.df.Filterable = b.df.Filterable
    /\ a.df.Sortable = b.df.Sortable
    /\ a.df.Sensitive = b.df.Sensitive
    /\ a.df.UniqueLookup = b.df.UniqueLookup
    /\ a.df.RangeLookup = b.df.RangeLookup

\* C14: resolving an annotation from its concretely-typed form and from the
\* generic map form carrying the same content gives equal normalized
\* annotations: same scope list in the same order, same required map, same
\* searchable, filterable, sortable, sensitive, uniqueLookup and rangeLookup.
C14_BothFormsAgree ==
    genCall.fn = "getDomainFieldAnnotation: both forms" =>
        SameAnnotation(genOut.direct, genOut.map)

C14_Witness ==
    /\ genCall.fn = "getDomainFieldAnnotation: both forms"
    /\ genCall.df.Scopes.list = <<ScopeUpdate, ScopeCreate>>
    /\ genCall.df.Required.m = {<<ScopeCreate, FALSE>>, <<ScopeUpdate, TRUE>>}
    /\ genCall.df.UniqueLookup
    /\ genCall.df.RangeLookup
    /\ genOut.map.df.Scopes.list = <<ScopeUpdate, ScopeCreate>>
    /\ genOut.map.df.UniqueLookup

\* the flag of an annotation a json tag names
FlagOf(df, tag) ==
    CASE tag = "sensitive" -> df.Sensitive
      [] tag = "searchable" -> df.Searchable
      [] tag = "sortable" -> df.Sortable
      [] tag = "filterable" -> df.Filterable
      [] tag = "unique_lookup" -> df.UniqueLookup
      [] tag = "range_lookup" -> df.RangeLookup

FlagTags ==
    {"sensitive", "searchable", "sortable", "filterable", "unique_lookup", "range_lookup"}

\* every well-typed entry of the map under an exact json tag is in the annotation
Populated(m, df) ==
    /\ \A e \in m : (e[1] \in FlagTags /\ e[2].t = "bool") => FlagOf(df, e[1]) = e[2].b
    /\ \A e \in m : (e[1] = "description" /\ e[2].t = "string") => df.Description = e[2].s
    /\ \A e \in m : (e[1] = "scopes" /\ e[2].t = "list") =>
          /\ Len(df.Scopes.list) = Len(e[2].l)
          /\ \A i \in 1..Len(e[2].l) :
                 e[2].l[i].t = "string" => df.Scopes.list[i] = e[2].l[i].s
    /\ \A e \in m : (e[1] = "required" /\ e[2].t = "map") =>
          \A f \in e[2].m : f[2].t = "bool" => <<f[1], f[2].b>> \in df.Required.m

FieldsOf(list) == {list[i] : i \in 1..Len(list)}

\* the resolved annotation of the field is present and satisfies the rule
Annotated(field, Rule(_)) ==
    /\ ~getDomainFieldAnnotation(field).nil
    /\ Rule(getDomainFieldAnnotation(field).df)

\* the result of the call is exactly the fields of the node the rule keeps
Selects(Keep(_)) == FieldsOf(genOut) = {f \in FieldsOf(genCall.node.Fields) : Keep(f)}

\* the kind of a Go type of the schemas
GoKind(type) ==
    CASE type \in {StringsIdent, BytesIdent} -> "list"
      [] type = MapIdent -> "map"
      [] type = RawMessageIdent -> "JSON"
      [] type = URLIdent -> "pointer"
      [] OTHER -> "basic"

Selectors ==
    {"domainFields", "createFields", "updateFields", "responseFields", "queryFields",
     "searchableFields", "sortableFields", "updateableFields", "nonDefaultDomainFields",
     "uniqueLookupFields", "rangeLookupFields"}

\* the list is a subsequence of the other, in its order
Subsequence(sub, list) ==
    \E at \in [1..Len(sub) -> 1..Len(list)] :
        /\ \A i \in 1..Len(sub) : sub[i] = list[at[i]]
        /\ \A i, j \in 1..Len(sub) : i < j => at[i] < at[j]

\* C17: every selector returns a subsequence of the field list of the type,
\* in declaration order, with no field repeated.
C17_DeclarationOrder ==
    genCall.fn \in Selectors =>
        /\ Subsequence(genOut, genCall.node.Fields)
        /\ \A i, j \in 1..Len(genOut) : i # j => genOut[i].Name # genOut[j].Name

\* two annotated fields, both selected, the first of them declared with a default
C17_Witness ==
    /\ genCall.fn = "uniqueLookupFields"
    /\ Len(genCall.node.Fields) = 2
    /\ genCall.node.Fields[1].Name = <<"n", "a", "m", "e">>
    /\ genCall.node.Fields[2].Name = <<"e", "m", "a", "i", "l">>
    /\ genOut = genCall.node.Fields

\* C18: updateableFields returns exactly the fields that have an annotation,
\* are not named "id" and are not immutable, whatever their scope list.
C18_UpdateableFields ==
    genCall.fn = "updateableFields" =>
        Selects(LAMBDA f : /\ ~getDomainFieldAnnotation(f).nil
                           /\ f.Name # <<"i", "d">>
                           /\ ~f.Immutable)

\* a field with an empty scope list is returned, an annotated "id" is not
C18_Witness ==
    /\ genCall.fn = "updateableFields"
    /\ Len(genCall.node.Fields) = 2
    /\ genCall.node.Fields[1].Name = <<"i", "d">>
    /\ ~getDomainFieldAnnotation(genCall.node.Fields[1]).nil
    /\ Len(genOut) = 1
    /\ ScopesOf(getDomainFieldAnnotation(genOut[1]).df) = {}

\* the field has an annotation whose scope list is empty
EmptyScopes(field) ==
    /\ ~getDomainFieldAnnotation(field).nil
    /\ ScopesOf(getDomainFieldAnnotation(field).df) = {}

\* C19: a field whose annotation has an empty scope list is in none of
\* createFields, updateFields, queryFields, responseFields whatever its
\* capability flags, and is returned by uniqueLookupFields and
\* rangeLookupFields when the lookup flag is set.
C19_EmptyScopes ==
    /\ genCall.fn \in {"createFields", "updateFields", "queryFields", "responseFields"} =>
          \A f \in FieldsOf(genOut) : ~EmptyScopes(f)
    /\ genCall.fn = "uniqueLookupFields" =>
          \A f \in FieldsOf(genCall.node.Fields) :
              (EmptyScopes(f) /\ getDomainFieldAnnotation(f).df.UniqueLookup)
                  => f \in FieldsOf(genOut)
    /\ genCall.fn = "rangeLookupFields" =>
          \A f \in FieldsOf(genCall.node.Fields) :
              (EmptyScopes(f) /\ getDomainFieldAnnotation(f).df.RangeLookup)
                  => f \in FieldsOf(genOut)

\* C19, amended: a field whose annotation has an empty scope list is in none
\* of createFields, updateFields, responseFields whatever its capability
\* flags, and in queryFields exactly when it is searchable; it is returned by
\* uniqueLookupFields and rangeLookupFields when the lookup flag is set.
C19_EmptyScopesUnlessSearchable ==
    /\ genCall.fn \in {"createFields", "updateFields", "responseFields"} =>
          \A f \in FieldsOf(genOut) : ~EmptyScopes(f)
    /\ genCall.fn = "queryFields" =>
          \A f \in FieldsOf(genCall.node.Fields) :
              EmptyScopes(f) =>
                  (f \in FieldsOf(genOut) <=> getDomainFieldAnnotation(f).df.Searchable)
    /\ genCall.fn = "uniqueLookupFields" =>
          \A f \in FieldsOf(genCall.node.Fields) :
              (EmptyScopes(f) /\ getDomainFieldAnnotation(f).df.UniqueLookup)
                  => f \in FieldsOf(genOut)
    /\ genCall.fn = "rangeLookupFields" =>
          \A f \in FieldsOf(genCall.node.Fields) :
              (EmptyScopes(f) /\ getDomainFieldAnnotation(f).df.RangeLookup)
                  => f \in FieldsOf(genOut)

\* an annotation serialized with no scope and the unique lookup flag, selected
C19_Witness ==
    /\ genCall.fn = "uniqueLookupFields"
    /\ Len(genOut) = 1
    /\ genOut[1].Annotations.kind = "map"
    /\ EmptyScopes(genOut[1])
    /\ ~getDomainFieldAnnotation(genOut[1]).df.Searchable

\* the positions at which the text holds the other, in order
Occurrences(s, sub) ==
    LET at == {i \in 1..(Len(s) - Len(sub) + 1) : SubSeq(s, i, i + Len(sub) - 1) = sub}
    IN  CHOOSE list \in [1..Cardinality(at) -> at] :
            \A i, j \in 1..Cardinality(at) : i < j => list[i] < list[j]

\* the text from a position up to the first occurrence of a character
UpTo(s, from, ch) ==
    SubSeq(s, from, (CHOOSE q \in from..Len(s) :
                        s[q] = ch /\ \A r \in from..(q - 1) : s[r] # ch) - 1)

\* the types the generated text casts the value to, branch by branch
Casts(out) ==
    LET at == Occurrences(out, <<"v", "a", "l", "u", "e", ".", "(">>)
    IN  [i \in 1..Len(at) |-> UpTo(out, at[i] + 7, ")")]

\* the arguments of the equality predicates, branch by branch: the text
\* between "EQ(" and the "))" that ends the line
Arguments(out) ==
    LET at == Occurrences(out, <<"E", "Q", "(">>)
        Line(from) == UpTo(out, from, Newline)
    IN  [i \in 1..Len(at) |-> SubSeq(Line(at[i] + 3), 1, Len(Line(at[i] + 3)) - 2)]

\* the kind of the field in the dispatch table
KindOf(field) ==
    CASE field.Type.Type = "TypeEnum" -> "enumerated"
      [] field.Type.Type # "TypeEnum" /\ TypeString(field.Type) \in
             {StringIdent, BoolIdent, TimeIdent, Int64Ident} -> "one cast"
      [] field.Type.Type # "TypeEnum" /\ TypeString(field.Type) \in
             {IntIdent, Int32Ident} -> "narrowed"
      [] OTHER -> "other"

\* C20: the output of fieldPredicate is determined by the kind of the field:
\* text, boolean, timestamp and int64 give one cast to that type and an
\* equality on the value; int32 and int give a cast to the type and a
\* fallback cast to int64 narrowed to the type; an enumerated field, checked
\* before its text type, gives a cast to the enum type and a fallback cast to
\* text re-typed as the enum; every other kind gives only the "unsupported
\* field type" marker.
C20_FieldPredicate ==
    genCall.fn = "fieldPredicate" =>
        /\ KindOf(genCall.field) = "one cast" =>
              /\ Casts(genOut) = <<TypeString(genCall.field.Type)>>
              /\ Arguments(genOut) = <<<<"v">>>>
        /\ KindOf(genCall.field) = "narrowed" =>
              /\ Casts(genOut) = <<TypeString(genCall.field.Type), Int64Ident>>
              /\ Arguments(genOut) = <<<<"v">>, TypeString(genCall.field.Type) \o <<"(", "v", ")">>>>
        /\ KindOf(genCall.field) = "enumerated" =>
              /\ Len(Casts(genOut)) = 2
              /\ Contains(Casts(genOut)[1], <<".">>)
              /\ Casts(genOut)[2] = StringIdent
              /\ Arguments(genOut) = <<<<"v">>, Casts(genOut)[1] \o <<"(", "v", ")">>>>
        /\ KindOf(genCall.field) = "other" =>
              /\ genOut = genCall.indent \o <<"/", "/", " ", "u", "n", "s", "u", "p", "p", "o", "r", "t", "e", "d", " ", "f", "i", "e", "l", "d", " ", "t", "y", "p", "e", ":", " ">>
                              \o TypeString(genCall.field.Type)
              /\ Casts(genOut) = <<>>
              /\ Arguments(genOut) = <<>>
        /\ KindOf(genCall.field) # "other" => ~Contains(genOut, <<"u", "n", "s", "u", "p", "p", "o", "r", "t", "e", "d">>)

\* an enumerated field whose type text is "string"
C20_Witness ==
    /\ genCall.fn = "fieldPredicate"
    /\ genCall.field.Type = TypeInfo("TypeEnum", StringIdent)
    /\ genCall.skipEmpty
    /\ Casts(genOut) = <<<<"u", "s", "e", "r", ".", "S", "t", "a", "t", "u", "s">>, StringIdent>>
    /\ Arguments(genOut)[2] = <<"u", "s", "e", "r", ".", "S", "t", "a", "t", "u", "s", "(", "v", ")">>

\* C21: no entry point of the synthesizer returns an empty fragment for a
\* field it cannot handle: for a field kind it does not support,
\* fieldPredicate, searchMethod, findByMethod and generateSearchCondition each
\* return output that holds a visible marker.
C21_VisibleMarker ==
    /\ ( /\ genCall.fn \in {"fieldPredicate", "searchMethod", "findByMethod"}
         /\ KindOf(genCall.field) = "other" )
          => Contains(genOut, <<"/", "/", " ", "u", "n", "s", "u", "p", "p", "o", "r", "t", "e", "d", " ", "f", "i", "e", "l", "d", " ", "t", "y", "p", "e">>)
    /\ ( /\ genCall.fn = "generateSearchCondition"
         /\ TypeString(genCall.field.Type) # StringIdent )
          => /\ genOut # <<>>
             /\ Contains(genOut, <<"/", "/">>)

\* the first "{" after a position
BraceAfter(s, from) == CHOOSE q \in from..Len(s) : s[q] = "{" /\ \A r \in from..(q - 1) : s[r] # "{"

\* the conditions of the branches of the generated text: from each "if" to its "{"
Conditions(out) ==
    LET at == Occurrences(out, <<"i", "f", " ", "v", ",", " ", "o", "k", " ", ":", "=", " ">>)
    IN  [i \in 1..Len(at) |-> SubSeq(out, at[i], BraceAfter(out, at[i]) - 1)]

\* C22: in empty-skip mode, for a text field and for an enumerated field,
\* every branch that applies the equality predicate after a successful cast,
\* the cast to the concrete enum type included, is guarded by a non-empty
\* check on the cast value.
C22_EmptySkipGuards ==
    ( /\ genCall.fn \in {"fieldPredicate", "searchMethod"}
      /\ genCall.skipEmpty
      /\ \/ genCall.field.Type.Type = "TypeEnum"
         \/ TypeString(genCall.field.Type) = StringIdent )
    => /\ Len(Conditions(genOut)) = Len(Arguments(genOut))
       /\ \A i \in 1..Len(Conditions(genOut)) :
              Contains(Conditions(genOut)[i], <<"&", "&", " ", "v", " ", "!", "=", " ", Quote, Quote>>)

\* C23: generateIdOperation, for get, delete, exists and batchDelete, emits
\* the fragment of the ID's backing type: a String() conversion for a string
\* ID, an Int64() conversion for an int64 ID, the identifier unconverted for
\* any other ID type; for an operation it does not know it returns the
\* "// Unknown operation: <name>" placeholder, never an empty fragment.
C23_IdOperation ==
    genCall.fn = "generateIdOperation" =>
        /\ genOut # <<>>
        /\ genCall.operation \in {<<"g", "e", "t">>, <<"d", "e", "l", "e", "t", "e">>, <<"e", "x", "i", "s", "t", "s">>, <<"b", "a", "t", "c", "h", "D", "e", "l", "e", "t", "e">>} =>
              /\ TypeString(genCall.node.ID.Type) = StringIdent =>
                    /\ Contains(genOut, <<".", "S", "t", "r", "i", "n", "g", "(", ")">>)
                    /\ ~Contains(genOut, <<".", "I", "n", "t", "6", "4", "(", ")">>)
                    /\ genCall.operation # <<"b", "a", "t", "c", "h", "D", "e", "l", "e", "t", "e">> =>
                          Contains(genOut, genCall.idVar \o <<".", "S", "t", "r", "i", "n", "g", "(", ")", ")">>)
              /\ TypeString(genCall.node.ID.Type) = Int64Ident =>
                    /\ Contains(genOut, <<".", "I", "n", "t", "6", "4", "(", ")">>)
                    /\ ~Contains(genOut, <<".", "S", "t", "r", "i", "n", "g", "(", ")">>)
                    /\ genCall.operation # <<"b", "a", "t", "c", "h", "D", "e", "l", "e", "t", "e">> =>
                          Contains(genOut, <<" ">> \o genCall.idVar \o <<".", "I", "n", "t", "6", "4", "(", ")", ";">>)
              /\ TypeString(genCall.node.ID.Type) \notin {StringIdent, Int64Ident} =>
                    /\ ~Contains(genOut, <<".", "S", "t", "r", "i", "n", "g", "(", ")">>)
                    /\ ~Contains(genOut, <<".", "I", "n", "t", "6", "4", "(", ")">>)
                    /\ genCall.operation = <<"g", "e", "t">> =>
                          Contains(genOut, <<"(", "c", "t", "x", ",", " ">> \o genCall.idVar \o <<")">>)
                    /\ genCall.operation \in {<<"d", "e", "l", "e", "t", "e">>, <<"e", "x", "i", "s", "t", "s">>} =>
                          Contains(genOut, <<"(">> \o genCall.idVar \o <<")">>)
                    /\ genCall.operation = <<"b", "a", "t", "c", "h", "D", "e", "l", "e", "t", "e">> => Contains(genOut, <<"(", "i", "d", "s", ".", ".", ".", ")">>)
        /\ genCall.operation \notin
               {<<"g", "e", "t">>, <<"d", "e", "l", "e", "t", "e">>, <<"e", "x", "i", "s", "t", "s">>, <<"b", "a", "t", "c", "h", "D", "e", "l", "e", "t", "e">>, <<"u", "p", "d", "a", "t", "e", "O", "n", "e", "I", "D">>} =>
              genOut = <<"/", "/", " ", "U", "n", "k", "n", "o", "w", "n", " ", "o", "p", "e", "r", "a", "t", "i", "o", "n", ":", " ">> \o genCall.operation

\* an int64 ID that carries the type of its kind, converted with Int64()
C23_Witness ==
    /\ genCall.fn = "generateIdOperation"
    /\ genCall.operation = <<"e", "x", "i", "s", "t", "s">>
    /\ genCall.node.ID.Type = TypeInfo("TypeInt64", NoIdent)
    /\ Contains(genOut, <<"o", "r", "d", "e", "r", ".", "I", "D", "E", "Q", "(", "f", "u", "n", "c", "(", ")", " ", "i", "n", "t", "6", "4", " ", "{">>)
    /\ Contains(genOut, <<"r", "e", "q", ".", "I", "D", ".", "I", "n", "t", "6", "4", "(", ")">>)

\* the name of the method of a signature
MethodName(signature) == UpTo(signature, 1, "(")

\* the fields of the type whose resolved annotation asks for a lookup
UniquePairs(node) ==
    {k \in 1..Len(node.Fields) : Annotated(node.Fields[k], LAMBDA d : d.UniqueLookup)}

RangePairs(node) ==
    {k \in 1..Len(node.Fields) : Annotated(node.Fields[k], LAMBDA d : d.RangeLookup)}

\* the signature of the unique lookup of a field, and of its range lookup
UniqueSignature(node, field) ==
    <<"F", "i", "n", "d", "B", "y">> \o StructField(field) \o <<"(", "c", "t", "x", " ", "c", "o", "n", "t", "e", "x", "t", ".", "C", "o", "n", "t", "e", "x", "t", ",", " ">>
    \o ToLower(StructField(field)) \o <<" ">> \o TypeString(field.Type)
    \o <<")", " ", "(", "*">> \o node.Name \o <<"D", "o", "m", "a", "i", "n", "M", "o", "d", "e", "l", ",", " ", "e", "r", "r", "o", "r", ")">>

RangeSignature(node, field) ==
    <<"F", "i", "n", "d", "B", "y">> \o StructField(field)
    \o <<"R", "a", "n", "g", "e", "(", "c", "t", "x", " ", "c", "o", "n", "t", "e", "x", "t", ".", "C", "o", "n", "t", "e", "x", "t", ",", " ", "s", "t", "a", "r", "t", ",", " ", "e", "n", "d", " ", "t", "i", "m", "e", ".", "T", "i", "m", "e", ")", " ", "(", "[", "]", "*">>
    \o node.Name \o <<"D", "o", "m", "a", "i", "n", "M", "o", "d", "e", "l", ",", " ", "e", "r", "r", "o", "r", ")">>

\* C24: specificMethods returns exactly one signature for each pair of a
\* field and a lookup kind its annotation asks for, FindBy<Field> for a unique
\* lookup and FindBy<Field>Range for a range lookup; no method name occurs
\* twice, and a field with neither flag gets no signature.
C24_OneSignaturePerPair ==
    genCall.fn = "specificMethods" =>
        LET node == genCall.node
            Copies(signature) == {i \in 1..Len(genOut) : genOut[i] = signature}
        IN  /\ \A i, j \in 1..Len(genOut) :
                    i # j => MethodName(genOut[i]) # MethodName(genOut[j])
            /\ \A k \in UniquePairs(node) :
                    Cardinality(Copies(UniqueSignature(node, node.Fields[k]))) = 1
            /\ \A k \in RangePairs(node) :
                    Cardinality(Copies(RangeSignature(node, node.Fields[k]))) = 1
            /\ Len(genOut) = Cardinality(UniquePairs(node)) + Cardinality(RangePairs(node))
            /\ \A k \in 1..Len(node.Fields) :
                    k \notin UniquePairs(node) \cup RangePairs(node) =>
                        \A i \in 1..Len(genOut) :
                            MethodName(genOut[i]) \notin
                                {<<"F", "i", "n", "d", "B", "y">> \o StructField(node.Fields[k]),
                                 <<"F", "i", "n", "d", "B", "y">> \o StructField(node.Fields[k]) \o <<"R", "a", "n", "g", "e">>}

\* the same on the types where no two pairs share a method name
C24_DistinctNames ==
    (/\ genCall.fn = "specificMethods"
     /\ \A k \in UniquePairs(genCall.node), l \in RangePairs(genCall.node) :
            StructField(genCall.node.Fields[k])
                # StructField(genCall.node.Fields[l]) \o <<"R", "a", "n", "g", "e">>)
        => C24_OneSignaturePerPair

\* the positions of the fields a signature of the result can come from
UniqueSources(node, signature) ==
    {k \in UniquePairs(node) : signature = UniqueSignature(node, node.Fields[k])}

RangeSources(node, signature) ==
    {k \in RangePairs(node) : signature = RangeSignature(node, node.Fields[k])}

\* C30: every signature of the result is the unique lookup of a field, with
\* one parameter of the type of the field and one model as result, or the
\* range lookup of a field, with the parameters start, end time.Time and a
\* list of models as result whatever the type of the field; the unique
\* lookups come before the range lookups, each group in declaration order.
C30_SignatureShapes ==
    genCall.fn = "specificMethods" =>
        LET node == genCall.node
        IN  /\ \A i \in 1..Len(genOut) :
                    Cardinality(UniqueSources(node, genOut[i]))
                        + Cardinality(RangeSources(node, genOut[i])) = 1
            /\ \A i, j \in 1..Len(genOut) :
                    i < j =>
                        /\ RangeSources(node, genOut[i]) # {}
                                => UniqueSources(node, genOut[j]) = {}
                        /\ \A k \in UniqueSources(node, genOut[i]),
                              l \in UniqueSources(node, genOut[j]) : k < l
                        /\ \A k \in RangeSources(node, genOut[i]),
                              l \in RangeSources(node, genOut[j]) : k < l

\* a range lookup on a numeric field declared before a unique lookup
C30_Witness ==
    /\ genCall.fn = "specificMethods"
    /\ \E k \in RangePairs(genCall.node), l \in UniquePairs(genCall.node) :
            /\ k < l
            /\ genCall.node.Fields[k].Type.Type = "TypeInt64"
            /\ \E i, j \in 1..Len(genOut) :
                    /\ i < j
                    /\ genOut[i] = UniqueSignature(genCall.node, genCall.node.Fields[l])
                    /\ genOut[j] = RangeSignature(genCall.node, genCall.node.Fields[k])

----------------------------------------------------------------------------
(* Properties of the value types (checked under SpecTypes) *)

\* C25: a request that went through SetDefaults and then through Validate
\* without an error has a size between 1 and 1000, a page of at least 0 and
\* an order that is empty, asc or desc, and a search request has a query or a
\* filter; Validate rejects a negative size, a size above 1000, a negative
\* page, any other order, a nil request and a search request with neither
\* query nor filter; SetDefaults turns a size of 0 into 20.
C25_RequestBounds ==
    genCall.fn \in {"ListRequest", "SearchRequest"} =>
        LET r == genOut.req.val
        IN  /\ (genCall.steps = <<"SetDefaults", "Validate">> /\ genOut.err = NoError) =>
                    /\ 1 <= r.Size /\ r.Size <= 1000
                    /\ r.Page >= 0
                    /\ r.Order \in {"", "asc", "desc"}
                    /\ genCall.fn = "SearchRequest" => (r.Query # "" \/ r.Filters # {})
            /\ (/\ genCall.steps # <<>>
                /\ genCall.steps[Len(genCall.steps)] = "Validate"
                /\ \/ genOut.req.nil
                   \/ r.Size < 0
                   \/ r.Size > 1000
                   \/ r.Page < 0
                   \/ r.Order \notin {"", "asc", "desc"}
                   \/ genCall.fn = "SearchRequest" /\ r.Query = "" /\ r.Filters = {})
                    => genOut.err # NoError
            /\ (genCall.steps = <<"SetDefaults">> /\ genCall.arg.val.Size = 0) =>
                    r = [genCall.arg.val EXCEPT !.Size = 20]

\* a search request of size 0 with a filter and no query passed, with size 20
C25_Witness ==
    /\ genCall.fn = "SearchRequest"
    /\ genCall.steps = <<"SetDefaults", "Validate">>
    /\ genCall.arg.val.Size = 0
    /\ genCall.arg.val.Query = ""
    /\ genOut.req.val.Size = 20
    /\ genOut.err = NoError

\* the digits of a text after its sign, and without leading zeros
Unsigned(s) == IF s # <<>> /\ s[1] \in {"+", "-"} THEN Tail(s) ELSE s

Significant(ds) ==
    IF \E i \in 1..Len(ds) : ds[i] # "0"
    THEN SubSeq(ds, CHOOSE i \in 1..Len(ds) : ds[i] # "0" /\ \A j \in 1..(i - 1) : ds[j] = "0",
                Len(ds))
    ELSE <<>>

\* a is at most b, both written with the same number of digits
DigitsAtMost(a, b) ==
    \/ a = b
    \/ \E i \in 1..Len(a) :
            /\ DigitVal(a[i]) < DigitVal(b[i])
            /\ \A j \in 1..(i - 1) : a[j] = b[j]

\* the text is a base-10 integer of 64 bits: an optional sign, one digit or
\* more, and a value from -9223372036854775808 to 9223372036854775807
DecimalInt64(s) ==
    /\ Unsigned(s) # <<>>
    /\ \A i \in 1..Len(Unsigned(s)) : IsDigit(Unsigned(s)[i])
    /\ LET ds == Significant(Unsigned(s))
           limit == IF s[1] = "-" THEN <<"9", "2", "2", "3", "3", "7", "2", "0", "3", "6", "8", "5", "4", "7", "7", "5", "8", "0", "8">>
                    ELSE <<"9", "2", "2", "3", "3", "7", "2", "0", "3", "6", "8", "5", "4", "7", "7", "5", "8", "0", "7">>
       IN  Len(ds) < Len(limit) \/ (Len(ds) = Len(limit) /\ DigitsAtMost(ds, limit))

\* the text of the value a base-10 integer stands for
Canonical(s) ==
    LET ds == Significant(Unsigned(s))
    IN  IF ds = <<>> THEN <<"0">>
        ELSE (IF s[1] = "-" THEN <<"-">> ELSE <<>>) \o ds

\* C26: IsZero is true exactly for the empty string and for 0; String gives
\* the backing string, or the base-10 text of the number; Int64 of a numeric
\* ID gives the number without error, and Int64 of a string ID succeeds
\* exactly when the string is a base-10 integer of 64 bits (then with its
\* value) and gives an error otherwise, the empty string included.
C26_IDMethods ==
    /\ genCall.fn = "ID.IsZero" =>
            (genOut <=> genCall.id \in {StringID(<<>>), Int64ID(I64(0))})
    /\ genCall.fn = "ID.String" =>
            IF genCall.id.kind = "string" THEN genOut = genCall.id.s
            ELSE <<genCall.id.n, genOut>> \in Renderings
    /\ genCall.fn = "ID.Int64" =>
            IF genCall.id.kind = "int64"
            THEN genOut.err = NoError /\ genOut.n = genCall.id.n
            ELSE /\ genOut.err = NoError <=> DecimalInt64(genCall.id.s)
                 /\ genOut.err = NoError =>
                        /\ FormatInt(genOut.n) = Canonical(genCall.id.s)
                        /\ \A p \in Renderings :
                                p[2] = Canonical(genCall.id.s) => genOut.n = p[1]
                 /\ genCall.id.s = <<>> => genOut.err # NoError

\* Int64 read the smallest value of 64 bits from its text
C26_Witness ==
    /\ genCall.fn = "ID.Int64"
    /\ genCall.id.kind = "string"
    /\ genCall.id.s = <<"-", "9", "2", "2", "3", "3", "7", "2", "0", "3", "6", "8", "5", "4", "7", "7", "5", "8", "0", "8">>
    /\ genOut.err = NoError
    /\ genOut.n = MinInt64

----------------------------------------------------------------------------
(* Search and the request it forwards (checked under Spec) *)

\* C29: Search hands storage exactly the request params.ToSearchRequest()
\* produced: its Size and Page are not defaulted or clamped as List does, and
\* a request (*SearchRequest).Validate would refuse still reaches storage; only
\* the validation of the parameters themselves stops Search before storage.
C29_SearchForwardsRequest ==
    \A c \in DOMAIN pc :
        op[c].name = "Search" =>
            /\ pc[c] = "Search.repo" => local[c].req = op[c].req.toSearchRequest
            /\ \A i \in 1..Len(repoCalls[c]) :
                    repoCalls[c][i].req = op[c].req.toSearchRequest
            /\ (pc[c] = "done" /\ repoCalls[c] = <<>>) => op[c].req.validate # NoError

\* storage received a search request with no query, size -1 and page -1
C29_Witness ==
    \E c \in DOMAIN pc :
        /\ op[c].name = "Search"
        /\ Len(repoCalls[c]) = 1
        /\ repoCalls[c][1].req.Size = -1
        /\ repoCalls[c][1].req.Page = -1
        /\ repoCalls[c][1].req.Query = ""
        /\ SearchRequestValidate(RequestPtr(repoCalls[c][1].req)) # NoError

----------------------------------------------------------------------------
(* Properties of concurrent callers (checked under SpecConcurrent) *)

\* C27: the runtime serializes nothing: whatever the other caller is doing, a
\* caller can enter Update, make its storage GetByID and make its storage
\* Update, so every interleaving of the storage calls of two callers on one ID
\* can happen; each caller makes its own GetByID before its own Update.
C27_NoSerialization ==
    \A c \in DOMAIN pc :
        /\ pc[c] \in {"idle", "done"} =>
                ENABLED (\E req \in ConcurrentRequests : Update(c, SharedID, req))
        /\ pc[c] = "Update.get" => ENABLED RepoGetExisting(c)
        /\ pc[c] = "Update.put" => ENABLED RepoUpdate(c)
        /\ \A i \in 1..Len(repoCalls[c]) :
                repoCalls[c][i].method = "Update" =>
                    /\ i = 2
                    /\ repoCalls[c][1].method = "GetByID"
                    /\ repoCalls[c][1].id = op[c].id

\* both callers have made their GetByID on the ID and neither its Update
C27_Witness ==
    /\ \A c \in DOMAIN pc :
            /\ pc[c] = "Update.put"
            /\ op[c].id = SharedID
            /\ Methods(c) = <<"GetByID">>
    /\ Cardinality(DOMAIN pc) = 2

----------------------------------------------------------------------------
(* Properties of the builders of annotations (checked under SpecTypes) *)

\* what an annotation shows: its fields, with the slice, the map and the
\* block its references point to
Content(d, h) ==
    [d EXCEPT !.Scopes = IF @ = NilRef THEN <<"nil">> ELSE h.scopes[@],
              !.Required = IF @ = NilRef THEN {} ELSE h.maps[@],
              !.Metadata = IF @ = NilRef THEN <<>> ELSE <<h.metas[@]>>]

\* C28: a builder returns an annotation and leaves what the receiver shows
\* (its required map, its metadata block, its scope list, its flags) as it
\* was, also when the required map or the metadata block of the receiver is
\* already set; AllFieldScopes is never altered.
C28_BuildersLeaveReceiver ==
    (genCall.fn = "builder" /\ genCall.calls > 0) =>
        /\ Content(genCall.recv, genOut.h) = Content(genCall.recv, genCall.heap)
        /\ genOut.h.scopes[AllFieldScopesRef] = AllFieldScopes

\* the same for the receivers a builder does not share a map or a block with
C28_FreshReceiver ==
    (/\ genCall.fn = "builder"
     /\ genCall.calls > 0
     /\ genCall.call.name = "WithRequired" => genCall.recv.Required = NilRef
     /\ genCall.call.name \in {"WithTitle", "WithFormat", "WithPattern", "WithRange",
                               "WithLength", "WithEnum", "WithTags", "AsReadOnly",
                               "AsWriteOnly", "AsDeprecated"}
            => genCall.recv.Metadata = NilRef)
        => C28_BuildersLeaveReceiver

====
